---- MODULE Spec2Model ----
(***************************************************************************)
(* DHT11 single-wire driver (src/src/dht11.rs): the pin cell DHT11_PIN,    *)
(* dht11_init, read_dht11 with read_byte and wait_for_level_with_retry,    *)
(* and the periodic dht11_task, run by a cooperative executor next to      *)
(* other tasks.                                                            *)
(*                                                                         *)
(* The sensor is the environment.  It decides how many polls a bounded     *)
(* wait needs before the line shows the awaited level, and which frame     *)
(* of 40 bits it transmits in a transaction.                               *)
(***************************************************************************)
EXTENDS Integers, Sequences, FiniteSets, TLC

VARIABLES
    pinStored,  \* DHT11_PIN holds Some(Flex)
    locked,     \* the DHT11_PIN mutex is held
    outEn,      \* the pin's output driver is enabled
    inEn,       \* the pin's input buffer is enabled
    outLevel,   \* the pin's output latch
    pinOp,      \* the latest call on the pin, with the enables it was issued under
    pc,         \* position of dht11_task
    frame,      \* the five bytes the sensor transmits in this transaction
    data,       \* read_dht11: let mut data = [0u8; 5]
    byteIdx,    \* read_dht11: bytes of data written so far
    acc,        \* read_byte: let mut data = 0u8
    bitIdx,     \* read_byte: the loop variable i
    lastWait,   \* outcome of the latest wait_for_level_with_retry of this read
    result,     \* what the latest read() returned
    reading,    \* the Dht11Data of an Ok result
    elapsed,    \* microseconds of timer delay since the latest read() began
    otherRan,   \* another task ran since the host request of this read began
    log,        \* the log entries dht11_task wrote for the latest read()
    requests,   \* host requests (set_low + 20 ms) issued by the latest read()
    waitAt,     \* position of the latest wait_for_level_with_retry of this read
    failures,   \* failed reads in a row that the task has logged (saturating)
    waits,      \* read_dht11: waits that have succeeded so far in this read
    samples,    \* read_dht11: bits sampled so far in this read
    call,       \* a function called on its own: its name and arguments
    ret,        \* what that call returned
    rpc,        \* several callers of read(): the position of each
    holder,     \* several callers of read(): who holds DHT11_PIN (0: nobody)
    pinBy,      \* several callers of read(): who made the latest pin call
    rresult,    \* several callers of read(): what each one's latest read() returned
    keyStates,  \* xl9555: KEY_STATES, what the previous poll took each key for
    keyDown,    \* the keys held down when the latest poll read the expander
    fired,      \* xl9555: the keys whose action ran in the latest poll
    blState,    \* xl9555: BL_STATE
    port1Out,   \* XL9555: the output port 1 register
    bpc,        \* button: the position of read_keys in its poll
    bIdx,       \* button: read_keys: the loop index i
    current,    \* button: read_keys: current_states
    held,       \* button: the mutexes whose guard is alive
    beepState,  \* button: BEEP_STATE
    currentColor, \* button: CURRENT_COLOR
    port0Out    \* XL9555: the output port 0 register

\* the driver and its task
taskVars == <<pinStored, locked, outEn, inEn, outLevel, pinOp, pc, frame, data,
              byteIdx, acc, bitIdx, lastWait, result, reading, elapsed,
              otherRan, log, requests, waitAt, failures, waits, samples>>

\* a function exercised on its own
callVars == <<call, ret>>

\* tasks that call read() side by side
readerVars == <<rpc, holder, pinBy, rresult>>

\* the parts of the firmware modelled on their own
\* the key polling task and the expander
keyVars == <<keyStates, keyDown, fired, blState, port1Out>>

\* what button.rs adds to the key polling task
btnVars == <<bpc, bIdx, current, held, beepState, currentColor, port0Out>>

sideVars == <<readerVars, keyVars, btnVars>>

vars == <<taskVars, callVars, sideVars>>

-----------------------------------------------------------------------------
(* Program constants *)

\* u8 arithmetic: values are taken modulo 2^8
ByteModulus == 256

\* read_byte: for i in 0..8
BitsPerByte == 8

\* read_dht11: let mut data = [0u8; 5]
FrameBytes == 5

\* read_dht11: every wait is called with max_retries = 100
MaxRetries == 100

\* Timer::after_micros(20000)
HostRequestMicros == 20000

\* Timer::after_micros(15)
ReleaseMicros == 15

\* Timer::after_secs(2), in microseconds
InterReadMicros == 2000000

\* read_dht11: the waits of a whole read: 2 for the acknowledgment, 2 for
\* each of the 5 * 8 bits, 1 for the frame end
WaitsPerRead == 2 + 2 * (FrameBytes * BitsPerByte) + 1

\* read_byte: block_for(Duration::from_micros(40))
BitDelayMicros == 40

\* xl9555::io_bits: SLCD_RST_IO = 0x0400 (P1.2)
SLCD_RST_IO == 1024

\* xl9555::io_bits: SLCD_PWR_IO = 0x0800 (P1.3)
SLCD_PWR_IO == 2048

\* xl9555::io_bits: KEY3_IO = 0x1000 (P1.4)
KEY3_IO == 4096

\* xl9555::io_bits: KEY2_IO = 0x2000 (P1.5)
KEY2_IO == 8192

\* xl9555::io_bits: KEY1_IO = 0x4000 (P1.6)
KEY1_IO == 16384

\* xl9555::io_bits: KEY0_IO = 0x8000 (P1.7)
KEY0_IO == 32768

\* xl9555::io_bits: BEEP_IO = 0x0008 (P0.3)
BEEP_IO == 8

\* st7789: CMD_SWRESET = 0x01
CMD_SWRESET == 1

\* st7789: CMD_SLPOUT = 0x11
CMD_SLPOUT == 17

\* st7789: CMD_DISPON = 0x29
CMD_DISPON == 41

\* st7789: CMD_CASET = 0x2A
CMD_CASET == 42

\* st7789: CMD_RASET = 0x2B
CMD_RASET == 43

\* st7789: CMD_RAMWR = 0x2C
CMD_RAMWR == 44

\* st7789: CMD_MADCTL = 0x36
CMD_MADCTL == 54

\* st7789: CMD_COLMOD = 0x3A
CMD_COLMOD == 58

\* st7789: MADCTL_MY = 0x80
MADCTL_MY == 128

\* st7789: MADCTL_MX = 0x40
MADCTL_MX == 64

\* st7789: MADCTL_MV = 0x20
MADCTL_MV == 32

\* st7789: MADCTL_RGB = 0x00
MADCTL_RGB == 0

\* st7789: fill_rectangle: let mut buffer = [0u8; 2048]
BufferLen == 2048

\* the values of a u16
U16Modulus == 65536

\* main: ST7789::new(.., 320, 240)
DisplayWidth == 320

DisplayHeight == 240

-----------------------------------------------------------------------------
(* Bounds of the model *)

\* largest max_retries tried on wait_for_level_with_retry alone
MaxWaitRetries == 3

\* byte values the sensor puts in the four payload positions
PayloadBytes == {0, 21, 50, 255}

\* what the sensor adds to the true checksum in the fifth byte
ChecksumErrors == {0, 1}

\* failed reads in a row that are told apart
MaxFailures == 2

\* tasks that call read() side by side
NumReaders == 3

\* integral parts given to humidity() and temperature(): 0..MaxIntegral
MaxIntegral == 99

\* decimal parts given to humidity() and temperature(): 0..MaxDecimal
MaxDecimal == 9

\* what the two fields that an accessor does not read hold
OtherFields == {<<0, 0>>, <<21, 5>>, <<99, 9>>}

\* largest overrun of the 40 us busy-wait of a bit-read, in microseconds
MaxOverrun == 2

\* microseconds the line stays high after a bit-read begins (the rest of the
\* previous bit's high phase)
BitPre == {0, 1, 30, 120}

\* microseconds of the low phase that opens a bit
BitLow == {1, 50, 120}

\* microseconds of the high phase that carries the bit
BitHigh == {1, 26, 27, 28, 40, 41, 70, 72}

-----------------------------------------------------------------------------
(* esp_hal::gpio::Level and the pin *)

Level == {"High", "Low"}

Other(level) == IF level = "High" THEN "Low" ELSE "High"

\* the record kept of one call on the pin
PinCall(op) == [op |-> op, out |-> outEn, in |-> inEn]

NoReading == [valid |-> FALSE, humidity_integral |-> 0, humidity_decimal |-> 0,
              temperature_integral |-> 0, temperature_decimal |-> 0]

ZeroFrame == [i \in 1..FrameBytes |-> 0]

-----------------------------------------------------------------------------
(* wait_for_level_with_retry *)

\* a loop that tests the retry count first and polls the pin second
RECURSIVE WaitLoop_CountFirst(_, _, _, _, _)
WaitLoop_CountFirst(trace, level, max_retries, retries, polls) ==
    IF retries < max_retries
    THEN IF trace[polls + 1] # level
         THEN WaitLoop_CountFirst(trace, level, max_retries, retries + 1,
                                  polls + 1)
         ELSE [ok |-> TRUE, retries |-> retries, polls |-> polls + 1,
               last |-> trace[polls + 1]]
    ELSE [ok |-> FALSE, retries |-> retries, polls |-> polls,
          last |-> IF polls = 0 THEN Other(level) ELSE trace[polls]]

\* The loop of wait_for_level_with_retry.  trace[n] is the level the n-th
\* poll of the pin reads.  The loop condition polls the pin first and tests
\* the retry count second; the body counts a retry and delays 1 us.
RECURSIVE WaitLoop(_, _, _, _, _)
WaitLoop(trace, level, max_retries, retries, polls) ==
    IF trace[polls + 1] # level /\ retries < max_retries
    THEN WaitLoop(trace, level, max_retries, retries + 1, polls + 1)
    ELSE [ok |-> ~(retries >= max_retries), retries |-> retries,
          polls |-> polls + 1, last |-> trace[polls + 1]]

wait_for_level_with_retry(trace, level, max_retries) ==
    WaitLoop(trace, level, max_retries, 0, 0)

\* A line that shows the awaited level from poll k+1 on (never, for k past
\* the last poll).
TraceArrivingAfter(k, level, n) ==
    [i \in 1..n |-> IF i > k THEN level ELSE Other(level)]

\* How many polls the sensor lets pass before the line shows the level.
WaitArrivals == {0, 1, MaxRetries - 1, MaxRetries, MaxRetries + 1}

\* The outcomes a wait of read_dht11 for each level can have.
WaitOutcomes ==
    [level \in Level |->
        { wait_for_level_with_retry(
              TraceArrivingAfter(k, level, MaxRetries + 1), level, MaxRetries).ok :
          k \in WaitArrivals }]

-----------------------------------------------------------------------------
(* read_byte and the checksum *)

\* bit i (in transmission order, 0 first) of a byte on the wire
WireBit(byte, i) == (byte \div (2 ^ (BitsPerByte - 1 - i))) % 2

\* an assembly that puts the first sampled bit in bit 0
SetBit_LsbFirst(byte, i) ==
    IF (byte \div (2 ^ i)) % 2 = 1 THEN byte ELSE byte + 2 ^ i

\* data |= 1 << (7 - i)
SetBit(byte, i) ==
    IF (byte \div (2 ^ (7 - i))) % 2 = 1 THEN byte ELSE byte + 2 ^ (7 - i)

\* The loop of read_byte from iteration i on, with `data` assembled so far.
\* line.low[i + 1] and line.high[i + 1] tell whether the two waits of
\* iteration i find their level in time, line.sample[i + 1] is the level
\* pin.is_high() reads after the delay.
RECURSIVE ReadByteLoop(_, _, _)
ReadByteLoop(line, i, byte) ==
    IF i = BitsPerByte
    THEN [ok |-> TRUE, value |-> byte]
    ELSE IF ~line.low[i + 1] \/ ~line.high[i + 1]
         THEN [ok |-> FALSE, value |-> "Timeout"]
         ELSE ReadByteLoop(line, i + 1,
                           IF line.sample[i + 1] = "High"
                           THEN SetBit(byte, i) ELSE byte)

\* let mut data = 0u8; for i in 0..8 { .. }; Ok(data)
read_byte(line) == ReadByteLoop(line, 0, 0)

\* u8::wrapping_add
wrapping_add(a, b) == (a + b) % ByteModulus

\* a checksum that adds without wrapping to 8 bits
Checksum_NoWrap(d) == d[1] + d[2] + d[3] + d[4]

\* data[0].wrapping_add(data[1]).wrapping_add(data[2]).wrapping_add(data[3])
Checksum(d) == wrapping_add(wrapping_add(wrapping_add(d[1], d[2]), d[3]), d[4])

\* the frames the sensor may transmit
Frames ==
    { [i \in 1..FrameBytes |->
          IF i < FrameBytes THEN p[i]
          ELSE (p[1] + p[2] + p[3] + p[4] + e) % ByteModulus] :
      p \in [1..4 -> PayloadBytes], e \in ChecksumErrors }

-----------------------------------------------------------------------------
(* The initial state: nothing initialised, the task spawned and not yet run *)

NoCall == [fn |-> "none"]

NoReturn == [returned |-> FALSE]

TaskInit ==
    /\ pinStored = FALSE
    /\ locked = FALSE
    /\ outEn = FALSE
    /\ inEn = FALSE
    /\ outLevel = "Low"
    /\ pinOp = [op |-> "none", out |-> FALSE, in |-> FALSE]
    /\ pc = "spawned"
    /\ frame = ZeroFrame
    /\ data = ZeroFrame
    /\ byteIdx = 0
    /\ acc = 0
    /\ bitIdx = 0
    /\ lastWait = "none"
    /\ result = "none"
    /\ reading = NoReading
    /\ elapsed = 0
    /\ otherRan = FALSE
    /\ log = <<>>
    /\ requests = 0
    /\ waitAt = "none"
    /\ failures = 0
    /\ waits = 0
    /\ samples = 0

\* the key task has not polled yet: KEY_STATES = [false; 4], BL_STATE =
\* true, and xl9555::init has written 0x00 to output port 1
KeysInit ==
    /\ keyStates = [i \in 0..3 |-> FALSE]
    /\ keyDown = [i \in 0..3 |-> FALSE]
    /\ fired = {}
    /\ blState = TRUE
    /\ port1Out = 0

\* no other task calls read()
ReadersIdle ==
    /\ rpc = [r \in 1..NumReaders |-> "idle"]
    /\ holder = 0
    /\ pinBy = 0
    /\ rresult = [r \in 1..NumReaders |-> "none"]

\* the parts modelled on their own, at rest
\* button.rs: the task awaits its first poll, no guard is alive,
\* BEEP_STATE = false, CURRENT_COLOR = Red
ButtonIdle ==
    /\ bpc = "idle"
    /\ bIdx = 0
    /\ current = [i \in 0..3 |-> FALSE]
    /\ held = {}
    /\ beepState = FALSE
    /\ currentColor = "Red"
    /\ port0Out = 0

SideInit == ReadersIdle /\ KeysInit /\ ButtonIdle

Init ==
    /\ TaskInit
    /\ call = NoCall
    /\ ret = NoReturn
    /\ SideInit

\* positions at which dht11_task is suspended in an await and the executor
\* runs other tasks
Suspended == {"spawned", "r_pulse", "r_settle", "sleep"}

-----------------------------------------------------------------------------
(* dht11_init and the other tasks of the executor *)

\* Flex::new(pin) hands over a pin with neither driver nor input buffer
\* enabled; DHT11_PIN.lock().await.replace(flex_pin)
dht11_init ==
    /\ pc \in Suspended
    /\ ~locked
    /\ pinStored' = TRUE
    /\ outEn' = FALSE
    /\ inEn' = FALSE
    /\ outLevel' = "Low"
    /\ pinOp' = [op |-> "new", out |-> FALSE, in |-> FALSE]
    /\ UNCHANGED <<locked, pc, frame, data, byteIdx, acc, bitIdx, lastWait,
                   result, reading, elapsed, otherRan, log>>
    /\ UNCHANGED <<requests, waitAt, failures, waits, samples>>
    /\ UNCHANGED <<callVars, sideVars>>

\* any other task of the firmware runs while dht11_task is suspended
OtherTaskRun ==
    /\ pc \in Suspended
    /\ otherRan' = TRUE
    /\ UNCHANGED <<pinStored, locked, outEn, inEn, outLevel, pinOp, pc, frame,
                   data, byteIdx, acc, bitIdx, lastWait, result, reading,
                   elapsed, log>>
    /\ UNCHANGED <<requests, waitAt, failures, waits, samples>>
    /\ UNCHANGED <<callVars, sideVars>>

-----------------------------------------------------------------------------
(* dht11_task and read_dht11 *)

\* the executor polls the spawned task for the first time
TaskStart ==
    /\ pc = "spawned"
    /\ pc' = "loop"
    /\ UNCHANGED <<pinStored, locked, outEn, inEn, outLevel, pinOp, frame, data,
                   byteIdx, acc, bitIdx, lastWait, result, reading, elapsed,
                   otherRan, log>>
    /\ UNCHANGED <<requests, waitAt, failures, waits, samples>>
    /\ UNCHANGED <<callVars, sideVars>>

\* a read() that reports a missing pin as an error instead of panicking
ReadLock_ErrOnNone ==
    /\ pc = "loop"
    /\ ~locked
    /\ locked' = pinStored
    /\ pc' = IF pinStored THEN "r_idle" ELSE "returned"
    /\ frame' = ZeroFrame
    /\ data' = ZeroFrame
    /\ byteIdx' = 0
    /\ acc' = 0
    /\ bitIdx' = 0
    /\ lastWait' = "none"
    /\ result' = IF pinStored THEN "none" ELSE "Timeout"
    /\ reading' = NoReading
    /\ elapsed' = 0
    /\ log' = <<>>
    /\ requests' = 0
    /\ waitAt' = "none"
    /\ waits' = 0
    /\ samples' = 0
    /\ UNCHANGED <<pinStored, outEn, inEn, outLevel, pinOp, otherRan, failures>>
    /\ UNCHANGED <<callVars, sideVars>>

\* dht11.read() begins: DHT11_PIN.lock().await; guard.as_mut().unwrap()
ReadLock ==
    /\ pc = "loop"
    /\ ~locked
    /\ locked' = TRUE
    /\ pc' = IF pinStored THEN "r_idle" ELSE "panicked"
    /\ frame' = ZeroFrame
    /\ data' = ZeroFrame
    /\ byteIdx' = 0
    /\ acc' = 0
    /\ bitIdx' = 0
    /\ lastWait' = "none"
    /\ result' = "none"
    /\ reading' = NoReading
    /\ elapsed' = 0
    /\ log' = <<>>
    /\ requests' = 0
    /\ waitAt' = "none"
    /\ waits' = 0
    /\ samples' = 0
    /\ UNCHANGED <<pinStored, outEn, inEn, outLevel, pinOp, otherRan, failures>>
    /\ UNCHANGED <<callVars, sideVars>>

\* flex_pin.set_high()
SetIdleHigh ==
    /\ pc = "r_idle"
    /\ outLevel' = "High"
    /\ pinOp' = PinCall("set_high")
    /\ pc' = "r_config"
    /\ UNCHANGED <<pinStored, locked, outEn, inEn, frame, data, byteIdx, acc,
                   bitIdx, lastWait, result, reading, elapsed, otherRan, log>>
    /\ UNCHANGED <<requests, waitAt, failures, waits, samples>>
    /\ UNCHANGED <<callVars, sideVars>>

\* flex_pin.apply_output_config(..); flex_pin.set_output_enable(true)
ConfigureOutput ==
    /\ pc = "r_config"
    /\ outEn' = TRUE
    /\ pinOp' = PinCall("set_output_enable")
    /\ pc' = "r_request"
    /\ UNCHANGED <<pinStored, locked, inEn, outLevel, frame, data, byteIdx, acc,
                   bitIdx, lastWait, result, reading, elapsed, otherRan, log>>
    /\ UNCHANGED <<requests, waitAt, failures, waits, samples>>
    /\ UNCHANGED <<callVars, sideVars>>

\* flex_pin.set_low(); Timer::after_micros(20000) is awaited
HostRequest ==
    /\ pc = "r_request"
    /\ outLevel' = "Low"
    /\ pinOp' = PinCall("set_low")
    /\ otherRan' = FALSE
    /\ pc' = "r_pulse"
    /\ UNCHANGED <<pinStored, locked, outEn, inEn, frame, data, byteIdx, acc,
                   bitIdx, lastWait, result, reading, elapsed, log>>
    /\ requests' = requests + 1
    /\ UNCHANGED <<waitAt, failures, waits, samples>>
    /\ UNCHANGED <<callVars, sideVars>>

\* the 20 ms timer fires and the task resumes
PulseElapsed ==
    /\ pc = "r_pulse"
    /\ elapsed' = elapsed + HostRequestMicros
    /\ pc' = "r_release"
    /\ UNCHANGED <<pinStored, locked, outEn, inEn, outLevel, pinOp, frame, data,
                   byteIdx, acc, bitIdx, lastWait, result, reading, otherRan,
                   log>>
    /\ UNCHANGED <<requests, waitAt, failures, waits, samples>>
    /\ UNCHANGED <<callVars, sideVars>>

\* flex_pin.set_high(); Timer::after_micros(15) is awaited
ReleaseLine ==
    /\ pc = "r_release"
    /\ outLevel' = "High"
    /\ pinOp' = PinCall("set_high")
    /\ pc' = "r_settle"
    /\ UNCHANGED <<pinStored, locked, outEn, inEn, frame, data, byteIdx, acc,
                   bitIdx, lastWait, result, reading, elapsed, otherRan, log>>
    /\ UNCHANGED <<requests, waitAt, failures, waits, samples>>
    /\ UNCHANGED <<callVars, sideVars>>

\* the 15 us timer fires and the task resumes
SettleElapsed ==
    /\ pc = "r_settle"
    /\ elapsed' = elapsed + ReleaseMicros
    /\ pc' = "r_input"
    /\ UNCHANGED <<pinStored, locked, outEn, inEn, outLevel, pinOp, frame, data,
                   byteIdx, acc, bitIdx, lastWait, result, reading, otherRan,
                   log>>
    /\ UNCHANGED <<requests, waitAt, failures, waits, samples>>
    /\ UNCHANGED <<callVars, sideVars>>

\* flex_pin.set_input_enable(true): the output driver is left as it is
EnableInput ==
    /\ pc = "r_input"
    /\ inEn' = TRUE
    /\ pinOp' = PinCall("set_input_enable")
    /\ pc' = "r_ack_low"
    /\ UNCHANGED <<pinStored, locked, outEn, outLevel, frame, data, byteIdx, acc,
                   bitIdx, lastWait, result, reading, elapsed, otherRan, log>>
    /\ UNCHANGED <<requests, waitAt, failures, waits, samples>>
    /\ UNCHANGED <<callVars, sideVars>>

\* a return that leaks the guard: the mutex stays locked
DropLocals_KeepLock ==
    /\ UNCHANGED frame
    /\ waits' = 0
    /\ samples' = 0
    /\ data' = ZeroFrame
    /\ byteIdx' = 0
    /\ acc' = 0
    /\ bitIdx' = 0
    /\ UNCHANGED locked

\* read_dht11 returns: its locals are gone and the guard is dropped; what
\* the sensor transmitted stays what it was
DropLocals ==
    /\ UNCHANGED frame
    /\ waits' = 0
    /\ samples' = 0
    /\ data' = ZeroFrame
    /\ byteIdx' = 0
    /\ acc' = 0
    /\ bitIdx' = 0
    /\ locked' = FALSE

\* a return of read_dht11 with Err(e)
ReturnErr(e) ==
    /\ result' = e
    /\ reading' = NoReading
    /\ DropLocals
    /\ pc' = "returned"

\* a wait whose error is dropped: the transaction goes on after a timeout
Await_ErrorIgnored(at, level, next) ==
    /\ pc = at
    /\ waitAt' = at
    /\ waits' = waits + 1
    /\ UNCHANGED samples
    /\ pinOp' = PinCall(IF level = "Low" THEN "is_high" ELSE "is_low")
    /\ \E ok \in WaitOutcomes[level] :
          /\ lastWait' = IF ok THEN "ok" ELSE "timeout"
          /\ pc' = next
          /\ UNCHANGED <<result, reading, locked, frame, data, byteIdx, acc,
                         bitIdx>>

\* a wait whose timeout in the data phase is reported as a bad frame
Await_MismatchOnTimeout(at, level, next) ==
    /\ pc = at
    /\ waitAt' = at
    /\ pinOp' = PinCall(IF level = "Low" THEN "is_high" ELSE "is_low")
    /\ \E ok \in WaitOutcomes[level] :
          IF ok
          THEN /\ lastWait' = "ok"
               /\ waits' = waits + 1
               /\ UNCHANGED samples
               /\ pc' = next
               /\ UNCHANGED <<result, reading, locked, frame, data, byteIdx,
                              acc, bitIdx>>
          ELSE /\ lastWait' = "timeout"
               /\ ReturnErr(IF at \in {"b_low", "b_high"}
                            THEN "ChecksumMismatch" ELSE "Timeout")

\* a wait whose timeout sends the read back to the host request
Await_RetryRequest(at, level, next) ==
    /\ pc = at
    /\ waitAt' = at
    /\ waits' = waits + 1
    /\ UNCHANGED samples
    /\ pinOp' = PinCall(IF level = "Low" THEN "is_high" ELSE "is_low")
    /\ \E ok \in WaitOutcomes[level] :
          /\ lastWait' = IF ok THEN "ok" ELSE "timeout"
          /\ pc' = IF ok THEN next ELSE "r_request"
          /\ UNCHANGED <<result, reading, locked, frame, data, byteIdx, acc,
                         bitIdx>>

\* a wait without a bound: a line that never shows the level holds the read
\* for ever
Await_Unbounded(at, level, next) ==
    /\ pc = at
    /\ waitAt' = at
    /\ waits' = waits + 1
    /\ UNCHANGED samples
    /\ pinOp' = PinCall(IF level = "Low" THEN "is_high" ELSE "is_low")
    /\ \E ok \in WaitOutcomes[level] :
          /\ lastWait' = IF ok THEN "ok" ELSE "never"
          /\ pc' = IF ok THEN next ELSE "waiting"
          /\ UNCHANGED <<result, reading, locked, frame, data, byteIdx, acc,
                         bitIdx>>

\* a wait that reports a sensor that never pulls the line low as NoResponse
Await_NoResponse(at, level, next) ==
    /\ pc = at
    /\ waitAt' = at
    /\ pinOp' = PinCall(IF level = "Low" THEN "is_high" ELSE "is_low")
    /\ \E ok \in WaitOutcomes[level] :
          IF ok
          THEN /\ lastWait' = "ok"
               /\ waits' = waits + 1
               /\ UNCHANGED samples
               /\ pc' = next
               /\ UNCHANGED <<result, reading, locked, frame, data, byteIdx,
                              acc, bitIdx>>
          ELSE /\ lastWait' = "timeout"
               /\ ReturnErr(IF at = "r_ack_low" THEN "NoResponse" ELSE "Timeout")

\* a wait that is called again when it times out
Await_AgainOnTimeout(at, level, next) ==
    /\ pc = at
    /\ waitAt' = at
    /\ waits' = waits + 1
    /\ UNCHANGED samples
    /\ pinOp' = PinCall(IF level = "Low" THEN "is_high" ELSE "is_low")
    /\ \E ok \in WaitOutcomes[level] :
          /\ lastWait' = IF ok THEN "ok" ELSE "timeout"
          /\ pc' = IF ok THEN next ELSE at
          /\ UNCHANGED <<result, reading, locked, frame, data, byteIdx, acc,
                         bitIdx>>

\* wait_for_level_with_retry(flex_pin, level, 100)? at position `at`
Await(at, level, next) ==
    /\ pc = at
    /\ waitAt' = at
    /\ pinOp' = PinCall(IF level = "Low" THEN "is_high" ELSE "is_low")
    /\ \E ok \in WaitOutcomes[level] :
          IF ok
          THEN /\ lastWait' = "ok"
               /\ waits' = waits + 1
               /\ UNCHANGED samples
               /\ pc' = next
               /\ UNCHANGED <<result, reading, locked, frame, data, byteIdx,
                              acc, bitIdx>>
          ELSE /\ lastWait' = "timeout"
               /\ ReturnErr("Timeout")

\* wait_for_level_with_retry(flex_pin, Level::Low, 100)?   (sensor ack)
AwaitAckLow ==
    /\ Await("r_ack_low", "Low", "r_ack_high")
    /\ UNCHANGED <<pinStored, outEn, inEn, outLevel, elapsed, otherRan, log>>
    /\ UNCHANGED <<requests, failures>>
    /\ UNCHANGED <<callVars, sideVars>>

\* wait_for_level_with_retry(flex_pin, Level::High, 100)?  (sensor ready)
AwaitAckHigh ==
    /\ Await("r_ack_high", "High", "r_data")
    /\ UNCHANGED <<pinStored, outEn, inEn, outLevel, elapsed, otherRan, log>>
    /\ UNCHANGED <<requests, failures>>
    /\ UNCHANGED <<callVars, sideVars>>

\* let mut data = [0u8; 5]; the first read_byte begins.  The sensor has its
\* frame ready.
BeginData ==
    /\ pc = "r_data"
    /\ frame' \in Frames
    /\ data' = ZeroFrame
    /\ byteIdx' = 0
    /\ acc' = 0
    /\ bitIdx' = 0
    /\ pc' = "b_low"
    /\ UNCHANGED <<pinStored, locked, outEn, inEn, outLevel, pinOp, lastWait,
                   result, reading, elapsed, otherRan, log>>
    /\ UNCHANGED <<requests, waitAt, failures, waits, samples>>
    /\ UNCHANGED <<callVars, sideVars>>

\* read_byte: wait_for_level_with_retry(pin, Level::Low, 100)?
BitWaitLow ==
    /\ Await("b_low", "Low", "b_high")
    /\ UNCHANGED <<pinStored, outEn, inEn, outLevel, elapsed, otherRan, log>>
    /\ UNCHANGED <<requests, failures>>
    /\ UNCHANGED <<callVars, sideVars>>

\* read_byte: wait_for_level_with_retry(pin, Level::High, 100)?
BitWaitHigh ==
    /\ Await("b_high", "High", "b_sample")
    /\ UNCHANGED <<pinStored, outEn, inEn, outLevel, elapsed, otherRan, log>>
    /\ UNCHANGED <<requests, failures>>
    /\ UNCHANGED <<callVars, sideVars>>

\* a read_dht11 that goes from the data to the checksum test
AfterData_SkipFrameEnd == "r_validate"

\* where read_dht11 goes on after the five bytes
AfterData == "r_end"

\* read_byte: block_for(40 us); if pin.is_high() { data |= 1 << (7 - i) };
\* after the eighth bit the byte is stored and the next byte begins
BitSample ==
    /\ pc = "b_sample"
    /\ pinOp' = PinCall("is_high")
    /\ LET high == WireBit(frame[byteIdx + 1], bitIdx) = 1
           byte == IF high THEN SetBit(acc, bitIdx) ELSE acc
       IN  IF bitIdx + 1 < BitsPerByte
           THEN /\ acc' = byte
                /\ bitIdx' = bitIdx + 1
                /\ pc' = "b_low"
                /\ UNCHANGED <<data, byteIdx>>
           ELSE /\ data' = [data EXCEPT ![byteIdx + 1] = byte]
                /\ byteIdx' = byteIdx + 1
                /\ acc' = 0
                /\ bitIdx' = 0
                /\ pc' = IF byteIdx + 1 < FrameBytes THEN "b_low" ELSE AfterData
    /\ UNCHANGED <<pinStored, locked, outEn, inEn, outLevel, frame, lastWait,
                   result, reading, elapsed, otherRan, log>>
    /\ samples' = samples + 1
    /\ UNCHANGED <<requests, waitAt, failures, waits>>
    /\ UNCHANGED <<callVars, sideVars>>

\* a frame-end wait whose timeout is tolerated: the checksum test follows
\* either way
AwaitFrameEnd_Soft ==
    /\ Await_ErrorIgnored("r_end", "Low", "r_validate")
    /\ UNCHANGED <<pinStored, outEn, inEn, outLevel, elapsed, otherRan, log>>
    /\ UNCHANGED <<requests, failures>>
    /\ UNCHANGED <<callVars, sideVars>>

\* wait_for_level_with_retry(flex_pin, Level::Low, 100)?   (frame end)
AwaitFrameEnd ==
    /\ Await("r_end", "Low", "r_validate")
    /\ UNCHANGED <<pinStored, outEn, inEn, outLevel, elapsed, otherRan, log>>
    /\ UNCHANGED <<requests, failures>>
    /\ UNCHANGED <<callVars, sideVars>>

\* a checksum test that never fails
ChecksumMismatch_Never(d) == FALSE

\* if checksum != data[4]
ChecksumMismatch(d) == Checksum(d) # d[5]

\* Ok(Dht11Data { .. })
Dht11Data(d) ==
    [valid |-> TRUE, humidity_integral |-> d[1], humidity_decimal |-> d[2],
     temperature_integral |-> d[3], temperature_decimal |-> d[4]]

\* the checksum test and the return of read_dht11; the guard is dropped
Validate ==
    /\ pc = "r_validate"
    /\ IF ChecksumMismatch(data)
       THEN ReturnErr("ChecksumMismatch")
       ELSE /\ result' = "Ok"
            /\ reading' = Dht11Data(data)
            /\ DropLocals
            /\ pc' = "returned"
    /\ UNCHANGED <<pinStored, outEn, inEn, outLevel, pinOp, lastWait, elapsed,
                   otherRan, log>>
    /\ UNCHANGED <<requests, waitAt, failures>>
    /\ UNCHANGED <<callVars, sideVars>>

\* An f32 that is not negative is kept as [num |-> n, shift |-> s], the
\* number n / 2^s, with n < 2^24 wherever the value is not a whole number.

\* n / p rounded to the nearest whole number, ties to the even one
RoundHalfEven(n, p) ==
    LET q == n \div p
        r == n % p
    IN  IF 2 * r < p THEN q
        ELSE IF 2 * r > p THEN q + 1
        ELSE IF q % 2 = 0 THEN q ELSE q + 1

\* the e with 2^e <= n < 2^(e+1), for a whole number n >= 1
RECURSIVE Log2(_)
Log2(n) == IF n < 2 THEN 0 ELSE 1 + Log2(n \div 2)

\* the e with 2^e <= u / 10 < 2^(e+1), for a u8 u >= 1
QuotientExponent(u) ==
    CHOOSE e \in -4..4 :
        LET a == IF e < 0 THEN u * 2 ^ (0 - e) ELSE u
            b == IF e < 0 THEN 10 ELSE 10 * 2 ^ e
        IN  b <= a /\ a < 2 * b

\* u as f32 / 10.0 : the quotient rounded to 24 significant bits
F32DivTen(u) ==
    IF u = 0 THEN [num |-> 0, shift |-> 0]
    ELSE LET k == 23 - QuotientExponent(u)
         IN  [num |-> RoundHalfEven(u * 2 ^ k, 10), shift |-> k]

\* u as f32 + q, for a u8 u and an f32 q >= 0: the sum rounded to 24
\* significant bits.  The sum is at least q, so the rounding drops low bits
\* of q only.
F32AddU8(u, q) ==
    LET whole == u + q.num \div (2 ^ q.shift)
    IN  IF whole = 0 THEN q
        ELSE LET s == 23 - Log2(whole)
             IN  IF q.shift <= s
                 THEN [num |-> u * 2 ^ q.shift + q.num, shift |-> q.shift]
                 ELSE [num |-> u * 2 ^ s
                               + RoundHalfEven(q.num, 2 ^ (q.shift - s)),
                       shift |-> s]

\* an accessor that reads the temperature fields for the humidity
humidity_FromTemperature(d) ==
    F32AddU8(d.temperature_integral, F32DivTen(d.temperature_decimal))

\* Dht11Data::humidity(): integral as f32 + (decimal as f32 / 10.0)
humidity(d) == F32AddU8(d.humidity_integral, F32DivTen(d.humidity_decimal))

\* Dht11Data::temperature(): integral as f32 + (decimal as f32 / 10.0)
temperature(d) ==
    F32AddU8(d.temperature_integral, F32DivTen(d.temperature_decimal))

\* info!("Temperature: {} C, Humidity: {}%RH", data.temperature(), data.humidity())
InfoEntry(d) ==
    [level |-> "info", temperature |-> temperature(d), humidity |-> humidity(d)]

\* warn!("Failed to read DHT11 sensor: {:?}", e)
WarnEntry(e) == [level |-> "warn", error |-> e]

\* the arm of the match in dht11_task that the result selects
LogEntry == IF result = "Ok" THEN InfoEntry(reading) ELSE WarnEntry(result)

\* failed reads in a row once a read that returned r is counted
FailuresAfter(r) ==
    IF r = "Ok" THEN 0
    ELSE IF failures < MaxFailures THEN failures + 1 ELSE MaxFailures

\* a task that goes round at once after an error
LogResult_NoDelayOnError ==
    /\ pc = "returned"
    /\ log' = Append(log, LogEntry)
    /\ pc' = IF result = "Ok" THEN "sleep" ELSE "loop"
    /\ UNCHANGED <<pinStored, locked, outEn, inEn, outLevel, pinOp, frame, data,
                   byteIdx, acc, bitIdx, lastWait, result, reading, elapsed,
                   otherRan>>
    /\ failures' = FailuresAfter(result)
    /\ UNCHANGED <<requests, waitAt, waits, samples>>
    /\ UNCHANGED <<callVars, sideVars>>

\* a task that logs successes only
LogResult_SilentOnError ==
    /\ pc = "returned"
    /\ log' = IF result = "Ok" THEN Append(log, LogEntry) ELSE log
    /\ pc' = "sleep"
    /\ UNCHANGED <<pinStored, locked, outEn, inEn, outLevel, pinOp, frame, data,
                   byteIdx, acc, bitIdx, lastWait, result, reading, elapsed,
                   otherRan>>
    /\ failures' = FailuresAfter(result)
    /\ UNCHANGED <<requests, waitAt, waits, samples>>
    /\ UNCHANGED <<callVars, sideVars>>

\* a task that stops for good at the first failed read
LogResult_HaltOnError ==
    /\ pc = "returned"
    /\ log' = Append(log, LogEntry)
    /\ pc' = IF result = "Ok" THEN "sleep" ELSE "halted"
    /\ UNCHANGED <<pinStored, locked, outEn, inEn, outLevel, pinOp, frame, data,
                   byteIdx, acc, bitIdx, lastWait, result, reading, elapsed,
                   otherRan>>
    /\ failures' = FailuresAfter(result)
    /\ UNCHANGED <<requests, waitAt, waits, samples>>
    /\ UNCHANGED <<callVars, sideVars>>

\* match dht11.read().await { Ok(data) => info!(..), Err(e) => warn!(..) };
\* Timer::after_secs(2) is awaited
LogResult ==
    /\ pc = "returned"
    /\ log' = Append(log, LogEntry)
    /\ pc' = "sleep"
    /\ UNCHANGED <<pinStored, locked, outEn, inEn, outLevel, pinOp, frame, data,
                   byteIdx, acc, bitIdx, lastWait, result, reading, elapsed,
                   otherRan>>
    /\ failures' = FailuresAfter(result)
    /\ UNCHANGED <<requests, waitAt, waits, samples>>
    /\ UNCHANGED <<callVars, sideVars>>

\* the 2 s timer fires and the loop goes round
SleepElapsed ==
    /\ pc = "sleep"
    /\ elapsed' = elapsed + InterReadMicros
    /\ pc' = "loop"
    /\ UNCHANGED <<pinStored, locked, outEn, inEn, outLevel, pinOp, frame, data,
                   byteIdx, acc, bitIdx, lastWait, result, reading, otherRan,
                   log>>
    /\ UNCHANGED <<requests, waitAt, failures, waits, samples>>
    /\ UNCHANGED <<callVars, sideVars>>

Next ==
    \/ dht11_init
    \/ OtherTaskRun
    \/ TaskStart
    \/ ReadLock
    \/ SetIdleHigh
    \/ ConfigureOutput
    \/ HostRequest
    \/ PulseElapsed
    \/ ReleaseLine
    \/ SettleElapsed
    \/ EnableInput
    \/ AwaitAckLow
    \/ AwaitAckHigh
    \/ BeginData
    \/ BitWaitLow
    \/ BitWaitHigh
    \/ BitSample
    \/ AwaitFrameEnd
    \/ Validate
    \/ LogResult
    \/ SleepElapsed

Spec == Init /\ [][Next]_vars

\* the steps of dht11_task itself
TaskStep ==
    \/ TaskStart
    \/ ReadLock
    \/ SetIdleHigh
    \/ ConfigureOutput
    \/ HostRequest
    \/ PulseElapsed
    \/ ReleaseLine
    \/ SettleElapsed
    \/ EnableInput
    \/ AwaitAckLow
    \/ AwaitAckHigh
    \/ BeginData
    \/ BitWaitLow
    \/ BitWaitHigh
    \/ BitSample
    \/ AwaitFrameEnd
    \/ Validate
    \/ LogResult
    \/ SleepElapsed

\* The executor polls a task that is ready, every timer fires, and the
\* blocking code of the driver runs on: dht11_task takes its next step
\* whenever it has one.
FairSpec == Spec /\ WF_vars(TaskStep)

-----------------------------------------------------------------------------
(* wait_for_level_with_retry called on its own, for every awaited level,    *)
(* every max_retries up to MaxWaitRetries and every line behaviour over the *)
(* polls it can make                                                        *)

WaitCalls ==
    { [fn |-> "wait_for_level_with_retry", level |-> l, max_retries |-> m,
       trace |-> t] :
      l \in Level, m \in 0..MaxWaitRetries, t \in [1..(MaxWaitRetries + 1) -> Level] }

WaitInit ==
    /\ TaskInit
    /\ call \in WaitCalls
    /\ ret = NoReturn
    /\ SideInit

WaitCall ==
    /\ call.fn = "wait_for_level_with_retry"
    /\ ~ret.returned
    /\ ret' = [returned |-> TRUE,
               value |-> wait_for_level_with_retry(call.trace, call.level,
                                                   call.max_retries)]
    /\ UNCHANGED <<call, taskVars, sideVars>>

WaitNext == WaitCall

WaitSpec == WaitInit /\ [][WaitNext]_vars

-----------------------------------------------------------------------------
(* One iteration of the loop of read_byte (a bit-read) against a line in    *)
(* microsecond time.  The line is high for wave.pre, low for wave.low, high *)
(* for wave.high and low from then on.  The bit-read begins at time 0; a    *)
(* poll takes no time and each retry of a wait takes 1 us.                  *)

LineAt(wave, t) ==
    IF t < wave.pre THEN "High"
    ELSE IF t < wave.pre + wave.low THEN "Low"
    ELSE IF t < wave.pre + wave.low + wave.high THEN "High"
    ELSE "Low"

\* what the polls of a wait that begins at time t0 read
PollTrace(wave, t0) == [n \in 1..(MaxRetries + 1) |-> LineAt(wave, t0 + n - 1)]

\* a bit-read that samples as soon as the line is seen high
SampleTime_NoDelay(highAt, overrun) == highAt + overrun

\* block_for(40 us) begun at highAt ends here
SampleTime(highAt, overrun) == highAt + BitDelayMicros + overrun

BitTimeout == [ok |-> FALSE, error |-> "Timeout"]

\* wait for low, wait for high, block_for(40 us), pin.is_high()
read_bit(wave, overrun) ==
    LET lowWait == wait_for_level_with_retry(PollTrace(wave, 0), "Low",
                                             MaxRetries)
    IN  IF ~lowWait.ok THEN BitTimeout
        ELSE
        LET lowAt == lowWait.retries
            highWait == wait_for_level_with_retry(PollTrace(wave, lowAt),
                                                  "High", MaxRetries)
        IN  IF ~highWait.ok THEN BitTimeout
            ELSE
            LET highAt == lowAt + highWait.retries
                sampledAt == SampleTime(highAt, overrun)
                sample == LineAt(wave, sampledAt)
            IN  [ok |-> TRUE, bit |-> IF sample = "High" THEN 1 ELSE 0,
                 sample |-> sample, lowAt |-> lowAt, highAt |-> highAt,
                 sampledAt |-> sampledAt]

BitCalls ==
    { [fn |-> "read_bit", overrun |-> j,
       wave |-> [pre |-> p, low |-> l, high |-> h]] :
      j \in 0..MaxOverrun, p \in BitPre, l \in BitLow, h \in BitHigh }

BitInit ==
    /\ TaskInit
    /\ call \in BitCalls
    /\ ret = NoReturn
    /\ SideInit

BitCall ==
    /\ call.fn = "read_bit"
    /\ ~ret.returned
    /\ ret' = [returned |-> TRUE, value |-> read_bit(call.wave, call.overrun)]
    /\ UNCHANGED <<call, taskVars, sideVars>>

BitNext == BitCall

BitSpec == BitInit /\ [][BitNext]_vars

-----------------------------------------------------------------------------
(* read_byte called on its own, for every eight samples of the line and     *)
(* for every one of its sixteen waits being the first to time out (0: none) *)

\* the waits of read_byte before wait number k succeed, wait k times out
WaitsUntil(k, parity) ==
    [n \in 1..BitsPerByte |-> k = 0 \/ 2 * n - parity < k]

ByteCalls ==
    { [fn |-> "read_byte",
       line |-> [low |-> WaitsUntil(k, 1), high |-> WaitsUntil(k, 0),
                 sample |-> b]] :
      k \in 0..(2 * BitsPerByte), b \in [1..BitsPerByte -> Level] }

ByteInit ==
    /\ TaskInit
    /\ call \in ByteCalls
    /\ ret = NoReturn
    /\ SideInit

ByteCall ==
    /\ call.fn = "read_byte"
    /\ ~ret.returned
    /\ ret' = [returned |-> TRUE, value |-> read_byte(call.line)]
    /\ UNCHANGED <<call, taskVars, sideVars>>

ByteNext == ByteCall

ByteSpec == ByteInit /\ [][ByteNext]_vars

-----------------------------------------------------------------------------
(* humidity() and temperature() called on their own, on every Dht11Data     *)
(* whose fields the accessor reads range over 0..MaxIntegral and            *)
(* 0..MaxDecimal                                                            *)

ConvCalls ==
    { [fn |-> "humidity", data |-> Dht11Data(<<i, d, o[1], o[2], 0>>)] :
      i \in 0..MaxIntegral, d \in 0..MaxDecimal, o \in OtherFields }
    \cup
    { [fn |-> "temperature", data |-> Dht11Data(<<o[1], o[2], i, d, 0>>)] :
      i \in 0..MaxIntegral, d \in 0..MaxDecimal, o \in OtherFields }

ConvInit ==
    /\ TaskInit
    /\ call \in ConvCalls
    /\ ret = NoReturn
    /\ SideInit

ConvCall ==
    /\ call.fn \in {"humidity", "temperature"}
    /\ ~ret.returned
    /\ ret' = [returned |-> TRUE,
               value |-> IF call.fn = "humidity" THEN humidity(call.data)
                         ELSE temperature(call.data)]
    /\ UNCHANGED <<call, taskVars, sideVars>>

ConvNext == ConvCall

ConvSpec == ConvInit /\ [][ConvNext]_vars

-----------------------------------------------------------------------------
(* Several tasks that call read() on the initialised pin, on the one-core   *)
(* cooperative executor: a task runs from one await to the next without     *)
(* another task running in between.  read_dht11 awaits the mutex, the 20 ms *)
(* timer and the 15 us timer; the rest of it blocks.                        *)

Readers == 1..NumReaders

\* a mutex that is handed out whoever holds it
LockFree_Always == TRUE

\* DHT11_PIN.lock() is granted when nobody holds the mutex
LockFree == holder = 0

\* reader r holds the guard and runs up to the first timer: set_high(),
\* apply_output_config(), set_output_enable(true), set_low(),
\* Timer::after_micros(20000) awaited
Reader_Request(r) ==
    /\ holder' = r
    /\ pinBy' = r
    /\ rpc' = [rpc EXCEPT ![r] = "pulse"]
    /\ rresult' = [rresult EXCEPT ![r] = "none"]

\* a task calls read(): DHT11_PIN.lock().await is granted at once or the
\* task is suspended on the mutex
Reader_Call(r) ==
    /\ rpc[r] = "idle"
    /\ IF LockFree
       THEN Reader_Request(r)
       ELSE /\ rpc' = [rpc EXCEPT ![r] = "locking"]
            /\ rresult' = [rresult EXCEPT ![r] = "none"]
            /\ UNCHANGED <<holder, pinBy>>
    /\ UNCHANGED <<taskVars, callVars, keyVars, btnVars>>

\* a task suspended on the mutex is woken and obtains the guard
Reader_Locked(r) ==
    /\ rpc[r] = "locking"
    /\ LockFree
    /\ Reader_Request(r)
    /\ UNCHANGED <<taskVars, callVars, keyVars, btnVars>>

\* the 20 ms timer fires: set_high(), Timer::after_micros(15) awaited
Reader_Release(r) ==
    /\ rpc[r] = "pulse"
    /\ pinBy' = r
    /\ rpc' = [rpc EXCEPT ![r] = "settle"]
    /\ UNCHANGED <<holder, rresult>>
    /\ UNCHANGED <<taskVars, callVars, keyVars, btnVars>>

\* the 15 us timer fires: set_input_enable(true), the waits and samples of
\* the frame, the return of read_dht11; the guard is dropped
Reader_Receive(r) ==
    /\ rpc[r] = "settle"
    /\ pinBy' = r
    /\ \E res \in {"Ok", "Timeout", "ChecksumMismatch"} :
          rresult' = [rresult EXCEPT ![r] = res]
    /\ rpc' = [rpc EXCEPT ![r] = "idle"]
    /\ holder' = IF holder = r THEN 0 ELSE holder
    /\ UNCHANGED <<taskVars, callVars, keyVars, btnVars>>

ReadersInit ==
    /\ TaskInit
    /\ call = NoCall
    /\ ret = NoReturn
    /\ SideInit

ReadersNext ==
    \E r \in Readers :
        \/ Reader_Call(r)
        \/ Reader_Locked(r)
        \/ Reader_Release(r)
        \/ Reader_Receive(r)

ReadersSpec == ReadersInit /\ [][ReadersNext]_vars

-----------------------------------------------------------------------------
(* The XL9555 expander and the key polling task xl9555::read_keys.  A poll  *)
(* runs inside one critical section; the I2C transactions in it can fail.   *)

\* a & b on unsigned integers
RECURSIVE BitAnd(_, _)
BitAnd(a, b) ==
    IF a = 0 \/ b = 0 THEN 0
    ELSE (a % 2) * (b % 2) + 2 * BitAnd(a \div 2, b \div 2)

\* a | b on unsigned integers
RECURSIVE BitOr(_, _)
BitOr(a, b) ==
    IF a = 0 THEN b
    ELSE IF b = 0 THEN a
    ELSE (IF a % 2 = 1 \/ b % 2 = 1 THEN 1 ELSE 0)
         + 2 * BitOr(a \div 2, b \div 2)

\* !a on a u8
BitNot8(a) == 255 - a

\* (io >> 8) as u8
HighByte(io) == (io \div 256) % 256

\* a setter that writes the pin's bit alone, without the bits read
SetPort1Bit_Overwrite(io, port, state, readOk, writeOk) ==
    IF ~readOk
    THEN [port |-> port, written |-> <<>>]
    ELSE LET new_port1_data == IF state THEN HighByte(io) ELSE 0
         IN  [port |-> IF writeOk THEN new_port1_data ELSE port,
              written |-> <<new_port1_data>>]

\* The read-modify-write of output port 1 shared by
\* set_spi_lcd_power_state and set_spi_lcd_reset_state: port is the
\* register before the call, readOk and writeOk tell whether the two I2C
\* transactions succeed.  The result is the register after the call and the
\* bytes written to it.
SetPort1Bit(io, port, state, readOk, writeOk) ==
    IF ~readOk
    THEN [port |-> port, written |-> <<>>]
    ELSE LET new_port1_data ==
                 IF state THEN BitOr(port, HighByte(io))
                 ELSE BitAnd(port, BitNot8(HighByte(io)))
         IN  [port |-> IF writeOk THEN new_port1_data ELSE port,
              written |-> <<new_port1_data>>]

set_spi_lcd_power_state(port, state, readOk, writeOk) ==
    SetPort1Bit(SLCD_PWR_IO, port, state, readOk, writeOk)

set_spi_lcd_reset_state(port, state, readOk, writeOk) ==
    SetPort1Bit(SLCD_RST_IO, port, state, readOk, writeOk)

\* the two setters called on their own, for every value of the output
\* register, both states and every outcome of the two I2C transactions
PortCalls ==
    { [fn |-> f, port |-> p, state |-> st, readOk |-> r, writeOk |-> w] :
      f \in {"set_spi_lcd_power_state", "set_spi_lcd_reset_state"},
      p \in 0..(ByteModulus - 1), st \in BOOLEAN, r \in BOOLEAN,
      w \in BOOLEAN }

PortInit ==
    /\ TaskInit
    /\ call \in PortCalls
    /\ ret = NoReturn
    /\ SideInit

PortCall ==
    /\ call.fn \in {"set_spi_lcd_power_state", "set_spi_lcd_reset_state"}
    /\ ~ret.returned
    /\ ret' = [returned |-> TRUE,
               value |-> IF call.fn = "set_spi_lcd_power_state"
                         THEN set_spi_lcd_power_state(call.port, call.state,
                                                      call.readOk, call.writeOk)
                         ELSE set_spi_lcd_reset_state(call.port, call.state,
                                                      call.readOk, call.writeOk)]
    /\ UNCHANGED <<call, taskVars, sideVars>>

PortNext == PortCall

PortSpec == PortInit /\ [][PortNext]_vars

Keys == 0..3

\* io_bits::KEYn_IO
KeyMask(i) ==
    IF i = 0 THEN KEY0_IO
    ELSE IF i = 1 THEN KEY1_IO
    ELSE IF i = 2 THEN KEY2_IO
    ELSE KEY3_IO

\* what the expander's input port 1 holds: a key held down pulls its pin
\* low, the four output pins read back as driven
InputPort1(down, out) ==
    (out % 16)
    + (IF down[3] THEN 0 ELSE 16) + (IF down[2] THEN 0 ELSE 32)
    + (IF down[1] THEN 0 ELSE 64) + (IF down[0] THEN 0 ELSE 128)

\* values of input port 0, which carries no key
Port0Values == {0, 255}

\* One iteration of the loop of read_keys: the two input ports are read
\* into buffers that start as [0u8] and keep that value when the read
\* fails, the keys are compared with KEY_STATES, KEY1 toggles the backlight,
\* KEY_STATES is overwritten; Timer::after_millis(50) is awaited.
read_keys ==
    \E down \in [Keys -> BOOLEAN], p0 \in Port0Values,
       ok0, ok1, readOk, writeOk \in BOOLEAN :
        LET port0_data == IF ok0 THEN p0 ELSE 0
            port1_data == IF ok1 THEN InputPort1(down, port1Out) ELSE 0
            key_value == port1_data * 256 + port0_data
            current_states ==
                [i \in Keys |-> BitAnd(key_value, KeyMask(i)) = 0]
            pressed == {i \in Keys : current_states[i] /\ ~keyStates[i]}
        IN  /\ keyDown' = down
            /\ fired' = pressed
            /\ IF 1 \in pressed
               THEN /\ blState' = ~blState
                    /\ port1Out' = set_spi_lcd_power_state(
                                       port1Out, ~blState, readOk, writeOk).port
               ELSE UNCHANGED <<blState, port1Out>>
            /\ keyStates' = current_states
            /\ UNCHANGED <<taskVars, callVars, readerVars, btnVars>>

KeyInit ==
    /\ TaskInit
    /\ call = NoCall
    /\ ret = NoReturn
    /\ SideInit

KeyNext == read_keys

KeySpec == KeyInit /\ [][KeyNext]_vars

-----------------------------------------------------------------------------
(* read_dht11 from set_input_enable(true) on, against a sensor that keeps   *)
(* the timing of the data sheet.  Time is in microseconds from the first    *)
(* poll; a poll takes no time and each retry of a wait takes 1 us.          *)

\* the sensor's timing: acknowledgment low and high, the low that begins
\* every bit, the high of a 1, the low that ends the frame
SensorTiming ==
    [ackLow |-> 80, ackHigh |-> 80, bitLow |-> 50, oneHigh |-> 70,
     endLow |-> 50]

\* the high of a 0
ZeroHighs == {26, 27, 28}

\* when the sensor pulls the line low, within the polls of the first wait
AckStarts == {0, 1, 40, MaxRetries - 1}

\* the payloads sent, each with its valid checksum
SensorPayloads ==
    {<<0, 0, 0, 0>>, <<50, 3, 21, 5>>, <<21, 0, 255, 50>>,
     <<255, 255, 255, 255>>}

\* From set_high() at the end of the request on, the output driver stays
\* enabled and latched high: set_input_enable(true) adds the input buffer
\* and disables nothing.  While the sensor pulls the line low the two
\* drivers contend, and which one the input buffer reads is a property of
\* the board: "sensor" or "host".
Contention == {"sensor", "host"}

\* what is_high()/is_low() read while the sensor puts `level` on the line
PadLevel(level, bus) ==
    IF level = "Low" /\ bus = "host" THEN "High" ELSE level

\* the sensor's line around one of its pulses: released until `start`, low
\* for `low`, high for `high`, low after that (the next pulse)
PulseAt(t, start, low, high) ==
    IF t < start THEN "High"
    ELSE IF t < start + low THEN "Low"
    ELSE IF t < start + low + high THEN "High"
    ELSE "Low"

\* what the polls of a wait that begins at time t0 read
PadTrace(t0, start, low, high, bus) ==
    [n \in 1..(MaxRetries + 1) |->
        PadLevel(PulseAt(t0 + n - 1, start, low, high), bus)]

ReadErr(e) == [ok |-> FALSE, error |-> e]

\* the frame-end wait begun at time t, the checksum test and the return;
\* after its last low the sensor releases the line
FrameEnd(s, t, start, d) ==
    LET endWait == wait_for_level_with_retry(
                       PadTrace(t, start, SensorTiming.endLow,
                                MaxRetries + 1, s.bus), "Low", MaxRetries)
    IN  IF ~endWait.ok THEN ReadErr("Timeout")
        ELSE IF ChecksumMismatch(d) THEN ReadErr("ChecksumMismatch")
        ELSE [ok |-> TRUE, data |-> Dht11Data(d)]

\* The 40 iterations of read_byte from bit i on: at time t, with bit i of
\* the frame beginning at `start` and d assembled so far.
RECURSIVE ReadBits(_, _, _, _, _)
ReadBits(s, i, t, start, d) ==
    IF i = FrameBytes * BitsPerByte THEN FrameEnd(s, t, start, d)
    ELSE
    LET byteNo == i \div BitsPerByte + 1
        high == IF WireBit(s.frame[byteNo], i % BitsPerByte) = 1
                THEN SensorTiming.oneHigh ELSE s.zeroHigh
        lowWait == wait_for_level_with_retry(
                       PadTrace(t, start, SensorTiming.bitLow, high, s.bus),
                       "Low", MaxRetries)
    IN  IF ~lowWait.ok THEN ReadErr("Timeout")
        ELSE
        LET lowAt == t + lowWait.retries
            highWait == wait_for_level_with_retry(
                            PadTrace(lowAt, start, SensorTiming.bitLow, high,
                                     s.bus), "High", MaxRetries)
        IN  IF ~highWait.ok THEN ReadErr("Timeout")
            ELSE
            LET sampledAt == SampleTime(lowAt + highWait.retries, s.overrun)
                sample == PadLevel(PulseAt(sampledAt, start,
                                           SensorTiming.bitLow, high), s.bus)
                byte == IF sample = "High"
                        THEN SetBit(d[byteNo], i % BitsPerByte)
                        ELSE d[byteNo]
            IN  ReadBits(s, i + 1, sampledAt,
                         start + SensorTiming.bitLow + high,
                         [d EXCEPT ![byteNo] = byte])

\* read_dht11 from the first wait on
read_dht11(s) ==
    LET ackLow == wait_for_level_with_retry(
                      PadTrace(0, s.ackAt, SensorTiming.ackLow,
                               SensorTiming.ackHigh, s.bus), "Low", MaxRetries)
    IN  IF ~ackLow.ok THEN ReadErr("Timeout")
        ELSE
        LET ackHigh == wait_for_level_with_retry(
                           PadTrace(ackLow.retries, s.ackAt,
                                    SensorTiming.ackLow, SensorTiming.ackHigh,
                                    s.bus), "High", MaxRetries)
        IN  IF ~ackHigh.ok THEN ReadErr("Timeout")
            ELSE ReadBits(s, 0, ackLow.retries + ackHigh.retries,
                          s.ackAt + SensorTiming.ackLow + SensorTiming.ackHigh,
                          ZeroFrame)

SensorCalls ==
    { [fn |-> "read_dht11", bus |-> b, ackAt |-> a, zeroHigh |-> z,
       overrun |-> j,
       frame |-> [i \in 1..FrameBytes |->
                     IF i < FrameBytes THEN p[i] ELSE Checksum(p)]] :
      b \in Contention, a \in AckStarts, z \in ZeroHighs, j \in 0..MaxOverrun,
      p \in SensorPayloads }

SensorInit ==
    /\ TaskInit
    /\ call \in SensorCalls
    /\ ret = NoReturn
    /\ SideInit

SensorCall ==
    /\ call.fn = "read_dht11"
    /\ ~ret.returned
    /\ ret' = [returned |-> TRUE, value |-> read_dht11(call)]
    /\ UNCHANGED <<call, taskVars, sideVars>>

SensorNext == SensorCall

SensorSpec == SensorInit /\ [][SensorNext]_vars

-----------------------------------------------------------------------------
(* sensor.rs: InternalTemperatureSensor.  A sensor is the struct's `range`  *)
(* and `enabled` fields and the three fields of SENS_SAR_TSENS_CTRL_REG the *)
(* driver writes; each method maps the sensor it is called on to its result *)
(* and the sensor it leaves.  The f32 an Ok carries is not modelled.        *)

TemperatureRange ==
    {"Range50To110", "Range20To100", "RangeMinus10To80", "RangeMinus15To50",
     "RangeMinus20To20"}

\* InternalTemperatureSensor::new on the register as reset
NewSensor(range) ==
    [range |-> range, enabled |-> FALSE, clk_div |-> "reset",
     power_up |-> FALSE, power_up_force |-> FALSE]

TempOk(v) == [ok |-> TRUE, value |-> v]

TempErr(e) == [ok |-> FALSE, error |-> e]

enable(s) ==
    [result |-> TempOk("unit"),
     sensor |-> [s EXCEPT !.clk_div = "0x4", !.power_up = TRUE,
                          !.power_up_force = TRUE, !.enabled = TRUE]]

disable(s) ==
    [result |-> TempOk("unit"),
     sensor |-> [s EXCEPT !.power_up = FALSE, !.enabled = FALSE]]

get_celsius(s) ==
    IF ~s.enabled
    THEN [result |-> TempErr("NotEnabled"), sensor |-> s]
    ELSE [result |-> TempOk("calculated_temp"), sensor |-> s]

\* a read that relies on the caller having enabled the sensor
read_temperature_NoEnable(s) ==
    LET got == get_celsius(s)
    IN  IF ~got.result.ok THEN got
        ELSE LET off == disable(got.sensor)
             IN  IF ~off.result.ok THEN off
                 ELSE [result |-> got.result, sensor |-> off.sensor]

\* self.enable()?; let temp = self.get_celsius().await?; self.disable()?;
\* Ok(temp)
read_temperature(s) ==
    LET on == enable(s)
    IN  IF ~on.result.ok THEN on
        ELSE LET got == get_celsius(on.sensor)
             IN  IF ~got.result.ok THEN got
                 ELSE LET off == disable(got.sensor)
                      IN  IF ~off.result.ok THEN off
                          ELSE [result |-> got.result, sensor |-> off.sensor]

\* the sensors the methods can leave behind: new, enabled, disabled again
TempSensors ==
    UNION { { NewSensor(r), enable(NewSensor(r)).sensor,
              disable(enable(NewSensor(r)).sensor).sensor } :
            r \in TemperatureRange }

TempMethods == {"enable", "disable", "get_celsius", "read_temperature"}

TempCalls == { [fn |-> f, sensor |-> s] : f \in TempMethods, s \in TempSensors }

TempInit ==
    /\ TaskInit
    /\ call \in TempCalls
    /\ ret = NoReturn
    /\ SideInit

TempCall ==
    /\ call.fn \in TempMethods
    /\ ~ret.returned
    /\ ret' = [returned |-> TRUE,
               value |-> IF call.fn = "enable" THEN enable(call.sensor)
                         ELSE IF call.fn = "disable" THEN disable(call.sensor)
                         ELSE IF call.fn = "get_celsius"
                              THEN get_celsius(call.sensor)
                         ELSE read_temperature(call.sensor)]
    /\ UNCHANGED <<call, taskVars, sideVars>>

TempNext == TempCall

TempSpec == TempInit /\ [][TempNext]_vars

-----------------------------------------------------------------------------
(* button.rs: the key polling task with its four embassy mutexes.  It uses  *)
(* the statics KEY_STATES and BL_STATE under the same names as the task of  *)
(* xl9555.rs and drives the same expander.  A poll runs inside              *)
(* i2c::with_i2c, that is within one critical section; it is split into     *)
(* steps at every try_lock so that the guards alive at each request show.   *)

DisplayColor == {"Red", "Green", "Blue", "White", "Black"}

\* a cycle that leaves Black out
DisplayColor_next_SkipBlack(c) ==
    IF c = "Red" THEN "Green"
    ELSE IF c = "Green" THEN "Blue"
    ELSE IF c = "Blue" THEN "White"
    ELSE "Red"

\* DisplayColor::next
DisplayColor_next(c) ==
    IF c = "Red" THEN "Green"
    ELSE IF c = "Green" THEN "Blue"
    ELSE IF c = "Blue" THEN "White"
    ELSE IF c = "White" THEN "Black"
    ELSE "Red"

Locks == {"KEY_STATES", "BL_STATE", "BEEP_STATE", "CURRENT_COLOR"}

\* m.try_lock().unwrap(): the guard is handed out, or try_lock fails on a
\* mutex whose guard is alive and unwrap panics
TryLockUnwrap(m, next) ==
    IF m \in held
    THEN bpc' = "panicked" /\ UNCHANGED held
    ELSE bpc' = next /\ held' = held \cup {m}

\* set_beep_state: the read-modify-write of output port 0; both I2C results
\* are propagated, `?` on the read and the value of the write
set_beep_state(port, state, readOk, writeOk) ==
    IF ~readOk
    THEN [port |-> port, written |-> <<>>, ok |-> FALSE]
    ELSE LET new_port0_data ==
                 IF state THEN BitOr(port, BEEP_IO % ByteModulus)
                 ELSE BitAnd(port, BitNot8(BEEP_IO % ByteModulus))
         IN  [port |-> IF writeOk THEN new_port0_data ELSE port,
              written |-> <<new_port0_data>>, ok |-> writeOk]

\* the bytes read_input_ports can hand back for input port 1: every state
\* of the four key pins, the four output pins low or high
Port1Values == { 16 * n + m : n \in 0..15, m \in {0, 15} }

\* the timer has fired: read_input_ports, key_value, current_states
Button_ReadPorts ==
    /\ bpc = "idle"
    /\ \E p0 \in Port0Values, p1 \in Port1Values :
          LET key_value == p1 * 256 + p0
          IN  current' = [i \in Keys |-> BitAnd(key_value, KeyMask(i)) = 0]
    /\ fired' = {}
    /\ bpc' = "lock"
    /\ UNCHANGED <<bIdx, held, beepState, currentColor, port0Out>>
    /\ UNCHANGED <<keyStates, keyDown, blState, port1Out>>
    /\ UNCHANGED <<taskVars, callVars, readerVars>>

\* let mut key_states = KEY_STATES.try_lock().unwrap(); for i in 0..4
Button_LockKeyStates ==
    /\ bpc = "lock"
    /\ TryLockUnwrap("KEY_STATES", "scan")
    /\ bIdx' = 0
    /\ UNCHANGED <<current, beepState, currentColor, port0Out>>
    /\ UNCHANGED <<keyVars, taskVars, callVars, readerVars>>

\* a loop whose arms 1 to 3 keep the guard key_states alive
Button_Scan_KeepGuard ==
    /\ bpc = "scan"
    /\ bIdx < 4
    /\ IF current[bIdx] /\ ~keyStates[bIdx]
       THEN /\ fired' = fired \cup {bIdx}
            /\ IF bIdx = 0
               THEN /\ bIdx' = bIdx + 1
                    /\ UNCHANGED <<bpc, held>>
               ELSE /\ UNCHANGED held
                    /\ bpc' = IF bIdx = 1 THEN "k1_lock"
                              ELSE IF bIdx = 2 THEN "k2_lock"
                              ELSE "k3_lock"
                    /\ UNCHANGED bIdx
       ELSE /\ bIdx' = bIdx + 1
            /\ UNCHANGED <<fired, bpc, held>>
    /\ UNCHANGED <<current, beepState, currentColor, port0Out>>
    /\ UNCHANGED <<keyStates, keyDown, blState, port1Out>>
    /\ UNCHANGED <<taskVars, callVars, readerVars>>

\* one iteration of the loop up to the first statement of its match arm:
\* arm 0 logs, arms 1 to 3 begin with drop(key_states)
Button_Scan ==
    /\ bpc = "scan"
    /\ bIdx < 4
    /\ IF current[bIdx] /\ ~keyStates[bIdx]
       THEN /\ fired' = fired \cup {bIdx}
            /\ IF bIdx = 0
               THEN /\ bIdx' = bIdx + 1
                    /\ UNCHANGED <<bpc, held>>
               ELSE /\ held' = held \ {"KEY_STATES"}
                    /\ bpc' = IF bIdx = 1 THEN "k1_lock"
                              ELSE IF bIdx = 2 THEN "k2_lock"
                              ELSE "k3_lock"
                    /\ UNCHANGED bIdx
       ELSE /\ bIdx' = bIdx + 1
            /\ UNCHANGED <<fired, bpc, held>>
    /\ UNCHANGED <<current, beepState, currentColor, port0Out>>
    /\ UNCHANGED <<keyStates, keyDown, blState, port1Out>>
    /\ UNCHANGED <<taskVars, callVars, readerVars>>

\* toggle_lcd_backlight: let mut bl_state = BL_STATE.try_lock().unwrap()
Button_LockBacklight ==
    /\ bpc = "k1_lock"
    /\ TryLockUnwrap("BL_STATE", "k1_toggle")
    /\ UNCHANGED <<bIdx, current, beepState, currentColor, port0Out>>
    /\ UNCHANGED <<keyVars, taskVars, callVars, readerVars>>

\* toggle_lcd_backlight: *bl_state = !*bl_state; drop(bl_state);
\* set_spi_lcd_power_state(i2c_ref, new_bl_state); its result is only logged
Button_ToggleBacklight ==
    /\ bpc = "k1_toggle"
    /\ blState' = ~blState
    /\ held' = held \ {"BL_STATE"}
    /\ \E readOk, writeOk \in BOOLEAN :
          port1Out' = set_spi_lcd_power_state(port1Out, ~blState, readOk,
                                              writeOk).port
    /\ bpc' = "relock"
    /\ UNCHANGED <<bIdx, current, beepState, currentColor, port0Out>>
    /\ UNCHANGED <<keyStates, keyDown, fired>>
    /\ UNCHANGED <<taskVars, callVars, readerVars>>

\* let mut current_color = CURRENT_COLOR.try_lock().unwrap()
Button_LockColor ==
    /\ bpc = "k2_lock"
    /\ TryLockUnwrap("CURRENT_COLOR", "k2_next")
    /\ UNCHANGED <<bIdx, current, beepState, currentColor, port0Out>>
    /\ UNCHANGED <<keyVars, taskVars, callVars, readerVars>>

\* *current_color = current_color.next()
Button_NextColor ==
    /\ bpc = "k2_next"
    /\ currentColor' = DisplayColor_next(currentColor)
    /\ bpc' = "relock"
    /\ UNCHANGED <<bIdx, current, held, beepState, port0Out>>
    /\ UNCHANGED <<keyVars, taskVars, callVars, readerVars>>

\* toggle_beep: let mut beep_state = BEEP_STATE.try_lock().unwrap()
Button_LockBeep ==
    /\ bpc = "k3_lock"
    /\ TryLockUnwrap("BEEP_STATE", "k3_toggle")
    /\ UNCHANGED <<bIdx, current, beepState, currentColor, port0Out>>
    /\ UNCHANGED <<keyVars, taskVars, callVars, readerVars>>

\* toggle_beep: *beep_state = !*beep_state; drop(beep_state);
\* set_beep_state(i2c_ref, new_beep_state); its result is only logged
Button_ToggleBeep ==
    /\ bpc = "k3_toggle"
    /\ beepState' = ~beepState
    /\ held' = held \ {"BEEP_STATE"}
    /\ \E readOk, writeOk \in BOOLEAN :
          port0Out' = set_beep_state(port0Out, ~beepState, readOk,
                                     writeOk).port
    /\ bpc' = "relock"
    /\ UNCHANGED <<bIdx, current, currentColor>>
    /\ UNCHANGED <<keyVars, taskVars, callVars, readerVars>>

\* key_states = KEY_STATES.try_lock().unwrap() ends arms 1 to 3; the guard
\* current_color of arm 2 goes out of scope after it
Button_Relock ==
    /\ bpc = "relock"
    /\ IF "KEY_STATES" \in held
       THEN bpc' = "panicked" /\ UNCHANGED <<held, bIdx>>
       ELSE /\ held' = IF bIdx = 2
                       THEN (held \cup {"KEY_STATES"}) \ {"CURRENT_COLOR"}
                       ELSE held \cup {"KEY_STATES"}
            /\ bIdx' = bIdx + 1
            /\ bpc' = "scan"
    /\ UNCHANGED <<current, beepState, currentColor, port0Out>>
    /\ UNCHANGED <<keyVars, taskVars, callVars, readerVars>>

\* *key_states = current_states; the closure returns and key_states goes
\* out of scope; Timer::after_millis(50) is awaited
Button_Store ==
    /\ bpc = "scan"
    /\ bIdx = 4
    /\ keyStates' = current
    /\ held' = held \ {"KEY_STATES"}
    /\ bpc' = "idle"
    /\ UNCHANGED <<bIdx, current, beepState, currentColor, port0Out>>
    /\ UNCHANGED <<keyDown, fired, blState, port1Out>>
    /\ UNCHANGED <<taskVars, callVars, readerVars>>

ButtonInit ==
    /\ TaskInit
    /\ call = NoCall
    /\ ret = NoReturn
    /\ SideInit

ButtonNext ==
    \/ Button_ReadPorts
    \/ Button_LockKeyStates
    \/ Button_Scan
    \/ Button_LockBacklight
    \/ Button_ToggleBacklight
    \/ Button_LockColor
    \/ Button_NextColor
    \/ Button_LockBeep
    \/ Button_ToggleBeep
    \/ Button_Relock
    \/ Button_Store

ButtonSpec == ButtonInit /\ [][ButtonNext]_vars

-----------------------------------------------------------------------------
(* st7789.rs: the display driver.  A display is the level of its DC line,   *)
(* its size, whether it has a reset pin, and the log of the SPI writes made *)
(* on it: for each write the level of DC during it, the bytes, whether the  *)
(* bytes are a command byte or data, and whether the write succeeded.  The  *)
(* write numbered `fail` (0: none) returns an error.  Every operation maps  *)
(* a display to its result and the display it leaves.                       *)

NewDisplay(dc, rst, fail) ==
    [dc |-> dc, rst |-> rst, width |-> DisplayWidth, height |-> DisplayHeight,
     fail |-> fail, log |-> <<>>]

DOk(d) == [ok |-> TRUE, err |-> "none", d |-> d]

DErr(d) == [ok |-> FALSE, err |-> "spi", d |-> d]

DPanic(d) == [ok |-> FALSE, err |-> "panic", d |-> d]

\* self.dc.set_low() / self.dc.set_high()
SetDc(d, level) == [d EXCEPT !.dc = level]

\* self.spi.write(bytes)
SpiWrite(d, kind, bytes) ==
    LET failed == Len(d.log) + 1 = d.fail
        after == [d EXCEPT !.log = Append(@, [dc |-> d.dc, kind |-> kind,
                                              bytes |-> bytes,
                                              ok |-> ~failed])]
    IN  IF failed THEN DErr(after) ELSE DOk(after)

\* a write_command that leaves DC low for the parameters
write_command_NoDataMode(d, cmd, params) ==
    LET r1 == SpiWrite(SetDc(d, "Low"), "command", <<cmd>>)
    IN  IF ~r1.ok THEN r1
        ELSE IF params # <<>> THEN SpiWrite(r1.d, "data", params)
        ELSE DOk(r1.d)

\* ST7789::write_command
write_command(d, cmd, params) ==
    LET r1 == SpiWrite(SetDc(d, "Low"), "command", <<cmd>>)
    IN  IF ~r1.ok THEN r1
        ELSE IF params # <<>>
             THEN SpiWrite(SetDc(r1.d, "High"), "data", params)
        ELSE DOk(r1.d)

\* (v >> 8) as u8
Hi8(v) == (v \div 256) % 256

\* (v & 0xFF) as u8
Lo8(v) == v % 256

\* ST7789::set_address_window
set_address_window(d, x0, y0, x1, y1) ==
    LET r1 == write_command(d, CMD_CASET,
                            <<Hi8(x0), Lo8(x0), Hi8(x1), Lo8(x1)>>)
    IN  IF ~r1.ok THEN r1
        ELSE write_command(r1.d, CMD_RASET,
                           <<Hi8(y0), Lo8(y0), Hi8(y1), Lo8(y1)>>)

\* ST7789::draw_pixel
draw_pixel(d, x, y, color) ==
    IF x >= d.width \/ y >= d.height THEN DOk(d)
    ELSE LET r1 == set_address_window(d, x, y, x, y)
         IN  IF ~r1.ok THEN r1
             ELSE LET r2 == write_command(r1.d, CMD_RAMWR, <<>>)
                  IN  IF ~r2.ok THEN r2
                      ELSE SpiWrite(SetDc(r2.d, "High"), "data",
                                    <<Hi8(color), Lo8(color)>>)

Orientation == {"Portrait", "PortraitFlipped", "Landscape", "LandscapeFlipped"}

\* ST7789::set_orientation
set_orientation(d, orientation) ==
    LET madctl ==
            IF orientation = "Portrait" THEN MADCTL_RGB
            ELSE IF orientation = "PortraitFlipped"
                 THEN BitOr(BitOr(MADCTL_MX, MADCTL_MY), MADCTL_RGB)
            ELSE IF orientation = "Landscape"
                 THEN BitOr(BitOr(MADCTL_MV, MADCTL_MX), MADCTL_RGB)
            ELSE BitOr(BitOr(MADCTL_MV, MADCTL_MY), MADCTL_RGB)
    IN  write_command(d, CMD_MADCTL, <<madctl>>)

\* ST7789::init: the commands after the reset, the last one (DISPON) left
\* out
InitSequence ==
    <<<<CMD_MADCTL, <<0>>>>,
      <<CMD_COLMOD, <<85>>>>,
      <<178, <<12, 12, 0, 51, 51>>>>,
      <<183, <<53>>>>,
      <<187, <<25>>>>,
      <<192, <<44>>>>,
      <<194, <<1, 255>>>>,
      <<195, <<18>>>>,
      <<196, <<32>>>>,
      <<198, <<15>>>>,
      <<208, <<164, 161>>>>,
      <<224, <<208, 4, 13, 17, 19, 43, 63, 84, 76, 24, 13, 11, 31, 35>>>>,
      <<225, <<208, 4, 12, 17, 19, 44, 63, 68, 81, 47, 31, 31, 32, 35>>>>>>

RECURSIVE WriteCommands(_, _, _)
WriteCommands(d, cmds, i) ==
    IF i > Len(cmds) THEN DOk(d)
    ELSE LET r1 == write_command(d, cmds[i][1], cmds[i][2])
         IN  IF ~r1.ok THEN r1 ELSE WriteCommands(r1.d, cmds, i + 1)

\* ST7789::init; the delays change nothing here, and the reset pin is not
\* on the SPI bus
st7789_init(d) ==
    LET r1 == IF d.rst THEN DOk(d) ELSE write_command(d, CMD_SWRESET, <<>>)
    IN  IF ~r1.ok THEN r1
        ELSE LET r2 == WriteCommands(r1.d, InitSequence, 1)
             IN  IF ~r2.ok THEN r2
                 ELSE write_command(r2.d, CMD_DISPON, <<>>)

\* buffer[..n] after the loop has filled it with pixels
PixelBuffer(color, n) ==
    [k \in 1..n |-> IF k % 2 = 1 THEN Hi8(color) ELSE Lo8(color)]

\* The pixel loop of fill_rectangle from a flush on, `count` pixels to go:
\* 1024 pixels fill the buffer and are written, what is left at the end is
\* written after the loop.
RECURSIVE FillLoop(_, _, _)
FillLoop(d, color, count) ==
    IF count = 0 THEN DOk(d)
    ELSE IF 2 * count >= BufferLen
         THEN LET r1 == SpiWrite(d, "data", PixelBuffer(color, BufferLen))
              IN  IF ~r1.ok THEN r1
                  ELSE FillLoop(r1.d, color, count - BufferLen \div 2)
         ELSE SpiWrite(d, "data", PixelBuffer(color, 2 * count))

\* ST7789::fill_rectangle.  x + w - 1 and y + h - 1 are u16 arithmetic: out
\* of range they panic in a build with overflow checks and wrap in one
\* without.
fill_rectangle(d, x, y, w, h, color, checks) ==
    IF x >= d.width \/ y >= d.height THEN DOk(d)
    ELSE IF checks /\ (x + w >= U16Modulus \/ x + w = 0
                       \/ y + h >= U16Modulus \/ y + h = 0)
    THEN DPanic(d)
    ELSE
    LET x1 == (x + w + U16Modulus - 1) % U16Modulus
        y1 == (y + h + U16Modulus - 1) % U16Modulus
        r1 == set_address_window(d, x, y, x1, y1)
        r2 == write_command(r1.d, CMD_RAMWR, <<>>)
    IN  IF x1 >= d.width \/ y1 >= d.height THEN DOk(d)
        ELSE IF ~r1.ok THEN r1
        ELSE IF ~r2.ok THEN r2
        ELSE FillLoop(SetDc(r2.d, "High"), color, w * h)

\* ST7789::fill_screen
fill_screen(d, color, checks) ==
    fill_rectangle(d, 0, 0, d.width, d.height, color, checks)

(* The driver's operations as calls: every operation on a display with DC   *)
(* at either level and with the SPI write that fails, if any, among the     *)
(* first MaxSpiFail.  main builds the display without a reset pin; init is  *)
(* called both ways.                                                        *)

MaxSpiFail == 7

DcLevels == {"Low", "High"}

Displays(rsts) ==
    { NewDisplay(dc, rst, fail) :
      dc \in DcLevels, rst \in rsts, fail \in 0..MaxSpiFail }

\* Rgb565 values whose two bytes differ
Colors == {63488, 4660}

\* the largest fill of the program: fill_screen
MaxPixels == DisplayWidth * DisplayHeight

FillXs == {0, 2, DisplayWidth - 1, DisplayWidth}

FillYs == {0, DisplayHeight - 1, DisplayHeight}

FillWs == {0, 1, 2, 32, DisplayWidth, U16Modulus - 1}

FillHs == {0, 1, 32, DisplayHeight, U16Modulus - 1}

\* the rectangles asked for, none larger than the screen's pixel count
FillRects ==
    { g \in FillXs \X FillYs \X FillWs \X FillHs :
      g[3] = 0 \/ g[4] <= MaxPixels \div g[3] }

DisplayMethods ==
    {"st7789_init", "set_address_window", "draw_pixel", "fill_rectangle",
     "fill_screen", "set_orientation"}

DisplayCalls ==
    { [fn |-> "st7789_init", d |-> d, args |-> <<>>] :
      d \in Displays(BOOLEAN) }
    \cup
    { [fn |-> "set_address_window", d |-> d, args |-> <<x0, y0, x1, y1>>] :
      d \in Displays({FALSE}), x0 \in {0, 256, DisplayWidth - 1},
      y0 \in {0, DisplayHeight - 1}, x1 \in {0, 256, DisplayWidth - 1},
      y1 \in {0, DisplayHeight - 1} }
    \cup
    { [fn |-> "draw_pixel", d |-> d, args |-> <<x, y, c>>] :
      d \in Displays({FALSE}), x \in FillXs \cup {U16Modulus - 1},
      y \in FillYs, c \in Colors }
    \cup
    { [fn |-> "set_orientation", d |-> d, args |-> <<o>>] :
      d \in Displays({FALSE}), o \in Orientation }
    \cup
    { [fn |-> "fill_screen", d |-> d, args |-> <<c, k>>] :
      d \in Displays({FALSE}), c \in Colors, k \in BOOLEAN }
    \cup
    { [fn |-> "fill_rectangle", d |-> d,
       args |-> <<g[1], g[2], g[3], g[4], c, k>>] :
      d \in Displays({FALSE}), g \in FillRects, c \in Colors,
      k \in BOOLEAN }

DisplayInit ==
    /\ TaskInit
    /\ call \in DisplayCalls
    /\ ret = NoReturn
    /\ SideInit

DisplayCall ==
    /\ call.fn \in DisplayMethods
    /\ ~ret.returned
    /\ ret' = [returned |-> TRUE,
               value |->
                   LET a == call.args
                   IN  IF call.fn = "st7789_init" THEN st7789_init(call.d)
                       ELSE IF call.fn = "set_address_window"
                            THEN set_address_window(call.d, a[1], a[2], a[3],
                                                    a[4])
                       ELSE IF call.fn = "draw_pixel"
                            THEN draw_pixel(call.d, a[1], a[2], a[3])
                       ELSE IF call.fn = "set_orientation"
                            THEN set_orientation(call.d, a[1])
                       ELSE IF call.fn = "fill_screen"
                            THEN fill_screen(call.d, a[1], a[2])
                       ELSE fill_rectangle(call.d, a[1], a[2], a[3], a[4],
                                           a[5], a[6])]
    /\ UNCHANGED <<call, taskVars, sideVars>>

DisplayNext == DisplayCall

DisplaySpec == DisplayInit /\ [][DisplayNext]_vars

-----------------------------------------------------------------------------
(* The claims.  Sum4 is the checksum as the specification words it: the sum *)
(* of the four payload bytes modulo 256.                                    *)

Sum4(d) == (d[1] + d[2] + d[3] + d[4]) % 256

\* the step in which read_dht11 returns
Returns == pc # "returned" /\ pc' = "returned"

\* C1 (checksum validity): whenever a transaction in which no wait timed
\* out has captured a frame whose fifth byte is the sum of the first four
\* modulo 256, read() returns Ok and the four fields of the reading are the
\* first four bytes, in order.
C1_ChecksumValidity ==
    [][(pc = "r_validate" /\ data[5] = Sum4(data))
          => /\ Returns
             /\ result' = "Ok"
             /\ reading' = [valid |-> TRUE,
                            humidity_integral |-> data[1],
                            humidity_decimal |-> data[2],
                            temperature_integral |-> data[3],
                            temperature_decimal |-> data[4]]]_vars

\* C1 witness: read() has returned Ok with humidity 50.0 and temperature
\* 21.0, the reading of the frame 0x32 0x00 0x15 0x00 0x47.
C1_Witness ==
    /\ pc = "returned"
    /\ result = "Ok"
    /\ reading = [valid |-> TRUE, humidity_integral |-> 50, humidity_decimal |-> 0,
                  temperature_integral |-> 21, temperature_decimal |-> 0]

\* C2 as stated (checksum rejection): whenever read() returns after a whole
\* frame was captured whose fifth byte differs from the sum of the first
\* four, it returns ChecksumMismatch and no reading.
C2_ChecksumRejection ==
    [][(byteIdx = FrameBytes /\ data[5] # Sum4(data) /\ Returns)
          => (result' = "ChecksumMismatch" /\ ~reading'.valid)]_vars

\* C2 amended: a captured frame whose fifth byte differs from the sum is
\* answered with ChecksumMismatch when the frame-end wait succeeded and with
\* Timeout when it did not, never with a reading; read() returns Ok only
\* for a whole frame whose fifth byte equals the sum.
C2_ChecksumRejectionAmended ==
    [][/\ (pc = "r_validate" /\ data[5] # Sum4(data))
            => (Returns /\ result' = "ChecksumMismatch" /\ ~reading'.valid)
       /\ (byteIdx = FrameBytes /\ data[5] # Sum4(data) /\ Returns)
            => (result' \in {"ChecksumMismatch", "Timeout"} /\ ~reading'.valid)
       /\ (Returns /\ result' = "Ok")
            => (byteIdx = FrameBytes /\ data[5] = Sum4(data))]_vars

\* C2 witness: read() has returned ChecksumMismatch, without a reading.
C2_Witness ==
    /\ pc = "returned"
    /\ result = "ChecksumMismatch"
    /\ ~reading.valid

\* The mode of the pin as the specification defines it: Output is the
\* driver alone, Input the input buffer alone.
PinMode(out, in) ==
    IF out /\ ~in THEN "Output"
    ELSE IF in /\ ~out THEN "Input"
    ELSE IF out /\ in THEN "Both" ELSE "Off"

\* C3 (idle restoration): whenever read() has returned, with Ok, Timeout or
\* ChecksumMismatch, the pin is in Output mode and its level is high.
C3_IdleRestoration ==
    pc = "returned" => (PinMode(outEn, inEn) = "Output" /\ outLevel = "High")

\* C4 (minimum interval): whenever the periodic task begins a read() after
\* an earlier one, at least 2 seconds of timer delay have passed since the
\* earlier read() began, whatever the earlier read() returned.
C4_MinimumInterval ==
    [][(pc = "loop" /\ pc' # "loop" /\ result # "none")
          => elapsed >= 2 * 1000000]_vars

\* C4 witness: the task is about to begin the read() that follows a failed
\* one, 2 seconds or more after the failed one began.
C4_Witness ==
    /\ pc = "loop"
    /\ result = "Timeout"
    /\ elapsed >= 2 * 1000000

\* a call of wait_for_level_with_retry has returned and none of its polls
\* found the pin at the awaited level
NeverAtTarget ==
    /\ ret.returned
    /\ \A n \in 1..ret.value.polls : call.trace[n] # call.level

\* C5 as stated (bounded timeout): whenever wait_for_level_with_retry has
\* returned from a call during which no poll found the pin at the awaited
\* level, it has returned Timeout after exactly max_retries polls of the pin.
C5_BoundedTimeout ==
    NeverAtTarget => (~ret.value.ok /\ ret.value.polls = call.max_retries)

\* C5 amended: such a call has returned Timeout after exactly max_retries
\* delays of one microsecond and max_retries + 1 polls of the pin.
C5_BoundedTimeoutAmended ==
    NeverAtTarget =>
        /\ ~ret.value.ok
        /\ ret.value.retries = call.max_retries
        /\ ret.value.polls = call.max_retries + 1

\* C5 witness: a call with max_retries of 2 or more has returned Timeout,
\* the pin having been away from the awaited level at every poll.
C5_Witness ==
    /\ NeverAtTarget
    /\ call.max_retries >= 2
    /\ ~ret.value.ok

\* positions of read_dht11 from the start of the host request pulse to the
\* return
InTransaction ==
    pc \in {"r_pulse", "r_release", "r_settle", "r_input", "r_ack_low",
            "r_ack_high", "r_data", "b_low", "b_high", "b_sample", "r_end",
            "r_validate", "returned"}

\* C6 (no yield inside a transaction): from the start of the host request
\* pulse until read() returns the task never yields, so no other task has
\* run since the pulse began.
C6_NoYieldInTransaction ==
    InTransaction => ~otherRan

\* The place of each position of read_dht11 in the order Idle, HostRequest,
\* ReleaseLine, AwaitSensorAck (low, high), DataPhase, FrameEnd, Validate;
\* 0 outside read_dht11.
Step(p) ==
    CASE p \in {"r_idle", "r_config", "r_request"} -> 1
      [] p = "r_pulse" -> 2
      [] p \in {"r_release", "r_settle", "r_input"} -> 3
      [] p = "r_ack_low" -> 4
      [] p = "r_ack_high" -> 5
      [] p \in {"r_data", "b_low", "b_high", "b_sample"} -> 6
      [] p = "r_end" -> 7
      [] p = "r_validate" -> 8
      [] OTHER -> 0

C8_TimeoutPropagation ==
    /\ [](lastWait = "timeout" =>
            (pc \in {"returned", "sleep", "loop"} /\ result = "Timeout"
             /\ ~reading.valid))
    /\ [][/\ (lastWait' = "timeout" /\ lastWait # "timeout") => Returns
          /\ (Returns /\ reading'.valid) =>
                (byteIdx = FrameBytes /\ lastWait' = "ok")]_vars

\* C8 witness: a wait has failed and read() has returned Timeout without
\* a reading.
C8_Witness ==
    /\ pc = "returned"
    /\ lastWait = "timeout"
    /\ result = "Timeout"
    /\ ~reading.valid

\* C9 (pin mode exclusivity): a pin the driver has configured is in exactly
\* one of the modes Output and Input, never output-enabled and
\* input-enabled at once.
C9_PinModeExclusive ==
    (outEn \/ inEn) => PinMode(outEn, inEn) \in {"Output", "Input"}

\* C10 (mode-valid pin operations): every set_high and set_low was issued
\* with the pin in Output mode, and every is_high and is_low with the pin in
\* Input mode.
C10_ModeValidPinOps ==
    /\ pinOp.op \in {"set_high", "set_low"} =>
          PinMode(pinOp.out, pinOp.in) = "Output"
    /\ pinOp.op \in {"is_high", "is_low"} =>
          PinMode(pinOp.out, pinOp.in) = "Input"

\* some poll of the returned call found the pin at the awaited level
SawTarget == \E n \in 1..ret.value.polls : call.trace[n] = call.level

\* C11 (success on first match): a call of wait_for_level_with_retry that
\* has returned success stopped at the first poll that found the pin at the
\* awaited level, and one that has returned Timeout made no poll that found
\* it there; in particular its last poll did not.
C11_SuccessOnFirstMatch ==
    ret.returned =>
        /\ ret.value.ok =>
              /\ call.trace[ret.value.polls] = call.level
              /\ \A n \in 1..(ret.value.polls - 1) : call.trace[n] # call.level
        /\ ~ret.value.ok => (~SawTarget /\ ret.value.last # call.level)

SampledBit(i) == IF call.line.sample[i + 1] = "High" THEN 1 ELSE 0

\* no wait of the call of read_byte times out
NoWaitTimeout ==
    \A n \in 1..BitsPerByte : call.line.low[n] /\ call.line.high[n]

\* C13 (MSB-first assembly): a call of read_byte in which no wait times out
\* returns Ok with the byte whose value is the sum over i of b_i * 2^(7-i),
\* b_0..b_7 being the eight sampled bits in sampling order; so the i-th
\* sampled bit is bit 7-i of the result and touches no other bit.
C13_MsbFirstAssembly ==
    (call.fn = "read_byte" /\ ret.returned /\ NoWaitTimeout) =>
        /\ ret.value.ok
        /\ ret.value.value =
              SampledBit(0) * 128 + SampledBit(1) * 64 + SampledBit(2) * 32
              + SampledBit(3) * 16 + SampledBit(4) * 8 + SampledBit(5) * 4
              + SampledBit(6) * 2 + SampledBit(7) * 1
        /\ \A i \in 0..(BitsPerByte - 1) :
              (ret.value.value \div (2 ^ (7 - i))) % 2 = SampledBit(i)

\* a byte whose first two sampled bits alone are high has been returned
C13_Witness ==
    /\ call.fn = "read_byte"
    /\ ret.returned
    /\ NoWaitTimeout
    /\ call.line.sample =
          <<"High", "High", "Low", "Low", "Low", "Low", "Low", "Low">>
    /\ ret.value = [ok |-> TRUE, value |-> 192]

\* the call is a bit-read that has returned a bit
BitRead == call.fn = "read_bit" /\ ret.returned /\ ret.value.ok

\* C14 (bit classification): a bit-read that returns a bit has first seen
\* the line low, then seen it high, then waited the fixed 40 us (plus the
\* overrun of the busy-wait) and sampled the line once at that instant; the
\* bit is 1 iff that sample is high.  So a high phase of at most 28 us is
\* decoded as 0 and one of 70 us as 1.
C14_BitClassification ==
    BitRead =>
        /\ LineAt(call.wave, ret.value.lowAt) = "Low"
        /\ ret.value.lowAt <= ret.value.highAt
        /\ LineAt(call.wave, ret.value.highAt) = "High"
        /\ ret.value.sampledAt
              = ret.value.highAt + BitDelayMicros + call.overrun
        /\ ret.value.sample = LineAt(call.wave, ret.value.sampledAt)
        /\ (ret.value.bit = 1) <=> (ret.value.sample = "High")
        /\ ret.value.bit \in {0, 1}
        /\ call.wave.high <= 28 => ret.value.bit = 0
        /\ call.wave.high = 70 => ret.value.bit = 1

\* a 70 us high phase that follows 30 us of the previous bit and a 50 us low
\* phase has been sampled 40 us after it began and decoded as 1
C14_Witness ==
    /\ BitRead
    /\ call.wave = [pre |-> 30, low |-> 50, high |-> 70]
    /\ call.overrun = 0
    /\ ret.value.highAt = 80
    /\ ret.value.sampledAt = 120
    /\ ret.value.bit = 1

\* C15 (unconditional retry): after every result of read(), Ok or any
\* error, the task logs, sleeps and eventually begins another read(); the
\* step out of a result always goes to the inter-read delay, and the delay
\* is always the same 2 s, whatever the result was.  The task has no other
\* way on from a result: it neither stops nor escalates.
C15_UnconditionalRetry ==
    /\ \A n \in 0..MaxFailures :
          (pc = "returned" /\ failures = n) ~> (pc = "r_idle")
    /\ [][(pc = "returned" /\ pc' # "returned") => pc' = "sleep"]_vars
    /\ [][(pc = "sleep" /\ pc' # "sleep")
             => (pc' = "loop" /\ elapsed' = elapsed + InterReadMicros)]_vars
    /\ [][(pc = "loop" /\ pc' # "loop" /\ result # "none") => pc' = "r_idle"]_vars

\* the task has logged its second failure in a row, slept the 2 s and is
\* about to begin the next read()
C15_Witness ==
    /\ pc = "loop"
    /\ failures = 2
    /\ result = "ChecksumMismatch"
    /\ log = <<WarnEntry("ChecksumMismatch")>>
    /\ elapsed >= InterReadMicros
    /\ ~locked

\* an f32 in tenths, rounded to the nearest tenth
Tenths(x) == RoundHalfEven(10 * x.num, 2 ^ x.shift)

\* C16 (one log per attempt): from the moment a read() attempt begins until
\* its result is matched nothing is logged; when the inter-read delay begins
\* exactly one entry has been logged for the attempt: an info entry with the
\* temperature and humidity of the reading if read() returned Ok, a warning
\* that names the error if it returned an error.
C16_OneLogPerAttempt ==
    /\ (pc \notin {"sleep", "loop", "spawned"}) => log = <<>>
    /\ (pc = "sleep") =>
          /\ Len(log) = 1
          /\ result \in {"Ok", "Timeout", "ChecksumMismatch"}
          /\ (result = "Ok") =>
                /\ log[1].level = "info"
                /\ Tenths(log[1].temperature)
                      = 10 * reading.temperature_integral
                        + reading.temperature_decimal
                /\ Tenths(log[1].humidity)
                      = 10 * reading.humidity_integral
                        + reading.humidity_decimal
          /\ (result # "Ok") =>
                /\ log[1].level = "warn"
                /\ log[1].error = result

\* the delay has begun after an Ok read of 21.0 degrees and 50.0 %RH, with
\* the one info entry logged
C16_Witness ==
    /\ pc = "sleep"
    /\ result = "Ok"
    /\ reading.valid
    /\ Len(log) = 1
    /\ log[1].level = "info"
    /\ Tenths(log[1].temperature) = 210
    /\ Tenths(log[1].humidity) = 500

\* C17 (error taxonomy): what read() returns is Ok, Timeout or
\* ChecksumMismatch and never NoResponse; a sensor that never answers the
\* host request (the first wait of the read times out) gives Timeout.
C17_ErrorTaxonomy ==
    /\ result \in {"none", "Ok", "Timeout", "ChecksumMismatch"}
    /\ result # "NoResponse"
    /\ (pc = "returned" /\ waitAt = "r_ack_low") =>
          (lastWait = "timeout" /\ result = "Timeout")

\* read() has returned Timeout from its first wait: the sensor never pulled
\* the line low after the host request
C17_Witness ==
    /\ pc = "returned"
    /\ requests = 1
    /\ waitAt = "r_ack_low"
    /\ lastWait = "timeout"
    /\ result = "Timeout"

\* positions of read_dht11 from the host request to the checksum test
AfterRequest ==
    {"r_pulse", "r_release", "r_settle", "r_input", "r_ack_low", "r_ack_high",
     "r_data", "b_low", "b_high", "b_sample", "r_end", "r_validate"}

\* C18 (run to completion): a read() that has begun the host request always
\* returns, with Ok, Timeout or ChecksumMismatch, whatever the line does at
\* each of its waits (at the level at once, late, or never within the
\* bound); from no position after the request can it wait for ever.
C18_RunToCompletion ==
    (pc \in AfterRequest) ~>
        (pc = "returned" /\ result \in {"Ok", "Timeout", "ChecksumMismatch"})

\* a read() whose line stayed low in the data phase has returned Timeout
C18_Witness ==
    /\ pc = "returned"
    /\ requests = 1
    /\ waitAt = "b_high"
    /\ lastWait = "timeout"
    /\ result = "Timeout"
    /\ ~locked

\* C19 (single attempt): a call of read() drives the line low for the host
\* request exactly once: no request has been issued before the request
\* step, exactly one from then on, and exactly one when read() has returned,
\* whatever it returned; a Timeout or ChecksumMismatch is not followed by a
\* second request inside the call.
C19_SingleAttempt ==
    /\ requests \in {0, 1}
    /\ (pc \in {"r_idle", "r_config", "r_request"}) => requests = 0
    /\ (pc \in AfterRequest) => requests = 1
    /\ (pc = "returned") => requests = 1

\* read() has returned ChecksumMismatch after its one host request
C19_Witness ==
    /\ pc = "returned"
    /\ result = "ChecksumMismatch"
    /\ requests = 1

\* C20 (strict frame end): a read() whose latest wait was the frame-end
\* wait and timed out (all 40 bits were captured, the line did not go low
\* in time) has returned Timeout and no reading, also when the frame the
\* sensor sent carries a valid checksum.
C20_StrictFrameEnd ==
    (pc = "returned" /\ waitAt = "r_end" /\ lastWait = "timeout") =>
        (result = "Timeout" /\ ~reading.valid)

\* read() has returned Timeout from the frame-end wait after a frame of
\* 50 %RH with a valid checksum
C20_Witness ==
    /\ pc = "returned"
    /\ waitAt = "r_end"
    /\ lastWait = "timeout"
    /\ frame[1] = 50
    /\ frame[5] = Sum4(frame)
    /\ result = "Timeout"
    /\ ~reading.valid

\* C21 (ChecksumMismatch implies a complete frame): the step in which read()
\* returns ChecksumMismatch is taken from the checksum test, with all 83
\* waits (2 acknowledgment, 80 bit-level, 1 frame end) succeeded, exactly
\* 40 bits sampled into 5 bytes, and the frame-end wait the latest wait.
C21_MismatchAfterCompleteFrame ==
    [][(Returns /\ result' = "ChecksumMismatch") =>
          /\ pc = "r_validate"
          /\ lastWait = "ok"
          /\ waitAt = "r_end"
          /\ waits = 83
          /\ samples = 40
          /\ byteIdx = 5 /\ bitIdx = 0
          /\ data = frame]_vars

\* read() has returned ChecksumMismatch for a frame whose fifth byte is not
\* the sum of the other four, after the frame-end wait succeeded
C21_Witness ==
    /\ pc = "returned"
    /\ result = "ChecksumMismatch"
    /\ waitAt = "r_end"
    /\ lastWait = "ok"
    /\ frame[5] # Sum4(frame)

\* the readers whose transaction on the pin is in progress: the host request
\* has begun and read() has not returned
InProgress == {r \in Readers : rpc[r] \in {"pulse", "settle"}}

\* C22 (exclusive pin access): at most one transaction is in progress on the
\* pin at any time, the reader it belongs to holds the mutex, and the latest
\* call on the pin was made by that reader: no other caller of read() has
\* touched the pin since the transaction began.
C22_ExclusivePinAccess ==
    /\ Cardinality(InProgress) <= 1
    /\ \A r \in InProgress : holder = r /\ pinBy = r

\* reader 2 called read() while reader 1 was in its host request pulse, and
\* waits for the mutex
C22_Witness ==
    /\ rpc[1] = "pulse"
    /\ rpc[2] = "locking"
    /\ holder = 1
    /\ pinBy = 1

\* the integral field the called accessor reads
OwnIntegral ==
    IF call.fn = "humidity" THEN call.data.humidity_integral
    ELSE call.data.temperature_integral

\* the decimal field the called accessor reads
OwnDecimal ==
    IF call.fn = "humidity" THEN call.data.humidity_decimal
    ELSE call.data.temperature_decimal

\* |a - b|
Distance(a, b) == IF a >= b THEN a - b ELSE b - a

\* C23 (physical-value conversion): for integral in 0..99 and decimal in
\* 0..9 the value humidity() or temperature() returns is integral +
\* decimal/10 as an f32 has it: the f32 nearest to that number (off by at
\* most half a unit in its last place, and by nothing when decimal is 0 or
\* 5), which in tenths is 10 * integral + decimal; and it is the same value
\* whatever the two fields of the other quantity hold.
C23_PhysicalValueConversion ==
    (call.fn \in {"humidity", "temperature"} /\ ret.returned) =>
        LET n == ret.value.num
            unit == 2 ^ ret.value.shift
            tenths == 10 * OwnIntegral + OwnDecimal
        IN  /\ Tenths(ret.value) = tenths
            /\ 2 * Distance(10 * n, tenths * unit) <= 10
            /\ OwnDecimal \in {0, 5} => 10 * n = tenths * unit
            /\ ret.value = F32AddU8(OwnIntegral, F32DivTen(OwnDecimal))

\* humidity() of 50.3 %RH, in a reading whose temperature fields hold 21.5,
\* has returned 13185843 / 2^18
C23_Witness ==
    /\ call.fn = "humidity"
    /\ call.data.humidity_integral = 50
    /\ call.data.humidity_decimal = 3
    /\ call.data.temperature_integral = 21
    /\ ret.returned
    /\ ret.value = [num |-> 13185843, shift |-> 18]

\* C24 (key edge detection): in every poll of the key task a key's action
\* fires iff the key is held down in that poll and was not held down in the
\* previous poll (or there was none); so a key that stays down fires once,
\* and fires again only after a poll in which it was up.
C24_KeyEdgeDetection ==
    [][\A i \in Keys : (i \in fired') <=> (keyDown'[i] /\ ~keyDown[i])]_vars

\* the positions of read_dht11 at which a wait is called
WaitPositions == {"r_ack_low", "r_ack_high", "b_low", "b_high", "r_end"}

\* Every call of wait_for_level_with_retry delays at most max_retries
\* times: for every awaited level, every max_retries up to MaxWaitRetries
\* and every behaviour of the pin over the polls, and for max_retries = 100
\* with the line arriving at once, late or never.
WaitDelaysBounded ==
    /\ \A c \in WaitCalls :
          wait_for_level_with_retry(c.trace, c.level, c.max_retries).retries
              <= c.max_retries
    /\ \A level \in Level, k \in WaitArrivals :
          wait_for_level_with_retry(
              TraceArrivingAfter(k, level, MaxRetries + 1), level,
              MaxRetries).retries <= MaxRetries

\* C25 (bounded wait cost): a call of wait_for_level_with_retry makes at
\* most max_retries delays of 1 us, and a read() calls it at most 83 times
\* (2 acknowledgment, 80 bit-level, 1 frame end): at most 83 waits have
\* succeeded, and where a wait is about to be called fewer than 83 have.
C25_BoundedWaitCost ==
    /\ WaitDelaysBounded
    /\ waits <= 2 + 80 + 1
    /\ pc \in WaitPositions => waits < 2 + 80 + 1

\* the frame-end wait, the 83rd of the read, is about to be called
C25_Witness == pc = "r_end" /\ waits = 82 /\ samples = 40

\* C26 (conforming sensor succeeds): against a sensor that pulls the line
\* low within the polls of the first wait, for 80 us, then high for 80 us,
\* sends 40 bits as 50 us low and 26-28 us (0) or 70 us (1) high, then pulls
\* low for 50 us, with a valid checksum, read() returns Ok with the four
\* payload bytes sent.
C26_ConformingSensorSucceeds ==
    ret.returned =>
        /\ ret.value.ok
        /\ ret.value.data = Dht11Data(call.frame)

\* On a board where the sensor's pull-down wins over the host's driver the
\* read of such a sensor returns Ok with the payload sent.
SensorWinsReadsOk ==
    (ret.returned /\ call.bus = "sensor") =>
        /\ ret.value.ok
        /\ ret.value.data = Dht11Data(call.frame)

\* C27 (lock release): the DHT11_PIN lock taken by read() is free once
\* read() has returned, whatever it returned (Ok, Timeout from any wait,
\* ChecksumMismatch), during the 2 s delay of the task, and when the task is
\* about to call read() again, so that lock().await succeeds.
C27_LockRelease ==
    /\ pc \in {"returned", "sleep", "loop"} => ~locked
    /\ pc = "returned" => result \in {"Ok", "Timeout", "ChecksumMismatch"}
    /\ pc = "loop" => ENABLED ReadLock

\* the task is in its delay after a read() that held the lock through all
\* 83 waits and returned ChecksumMismatch; the lock is free
C27_Witness ==
    /\ pc = "sleep"
    /\ result = "ChecksumMismatch"
    /\ waitAt = "r_end"
    /\ requests = 1
    /\ ~locked

\* C28 (initialisation precondition): read() is past guard.as_mut().unwrap()
\* or has returned a Result only with a pin stored by dht11_init before the
\* call; a read() that gets the lock with no pin stored panics, which
\* returns nothing and ends the task; and dht11_init on a stored pin
\* replaces it with the new Flex, whose driver and input buffer are off.
C28_InitPrecondition ==
    /\ [](pc \notin {"spawned", "loop", "panicked"} => pinStored)
    /\ [](result # "none" => pinStored)
    /\ [][(pc = "loop" /\ pc' # "loop" /\ ~pinStored)
             => (pc' = "panicked" /\ result' = "none")]_vars
    /\ [][pc = "panicked" => pc' = "panicked"]_vars
    /\ [][pinStored => pinStored']_vars
    /\ [][(dht11_init /\ pinStored)
             => (pinStored' /\ ~outEn' /\ ~inEn' /\ pinOp'.op = "new")]_vars

\* read() has returned Ok on the first pin, which it left with driver and
\* input buffer on, and dht11_init has since stored a new pin
C28_Witness ==
    /\ pc = "sleep"
    /\ result = "Ok"
    /\ pinStored
    /\ pinOp.op = "new"
    /\ ~outEn /\ ~inEn

\* read() got the lock before any dht11_init and panicked
ReadPanicked == pc = "panicked" /\ ~pinStored /\ result = "none"

\* C29 (internal temperature sensor lifecycle): read_temperature, called on
\* a sensor enabled or not, never fails with NotEnabled (it succeeds) and
\* returns with the enabled flag clear and the sensor powered down;
\* get_celsius on a disabled sensor returns NotEnabled and leaves the sensor
\* as it was.
C29_SensorLifecycle ==
    ret.returned =>
        /\ call.fn = "read_temperature" =>
              /\ ret.value.result = TempOk("calculated_temp")
              /\ ~ret.value.sensor.enabled
              /\ ~ret.value.sensor.power_up
        /\ (call.fn = "get_celsius" /\ ~call.sensor.enabled) =>
              /\ ret.value.result = TempErr("NotEnabled")
              /\ ret.value.sensor = call.sensor

\* read_temperature has returned from a call on a sensor that was disabled
C29_Witness ==
    /\ ret.returned
    /\ call.fn = "read_temperature"
    /\ ~call.sensor.enabled
    /\ ret.value.result.ok

\* bit b of a byte
BitOf(byte, b) == (byte \div (2 ^ b)) % 2 = 1

\* the pin of output port 1 a setter drives: P1.3 or P1.2
PinOf(fn) == IF fn = "set_spi_lcd_power_state" THEN 3 ELSE 2

\* `after` is `before` with bit `pin` set to `state` and the other seven
\* bits kept
OnlyBitChanged(before, after, pin, state) ==
    \A b \in 0..7 :
        BitOf(after, b) = IF b = pin THEN state ELSE BitOf(before, b)

\* C30 as stated (read-modify-write frame): when the register read succeeds
\* the setter leaves output port 1 with its pin's bit (3 for power, 2 for
\* reset) at `state` and the other seven bits as read; when the read fails
\* no write is issued and the port is unchanged.
C30_ReadModifyWriteFrame ==
    ret.returned =>
        IF call.readOk
        THEN OnlyBitChanged(call.port, ret.value.port, PinOf(call.fn),
                            call.state)
        ELSE ret.value.written = <<>> /\ ret.value.port = call.port

\* C30 amended: when the register read succeeds the setter issues one write
\* of the byte read with its pin's bit at `state` and the other seven bits
\* kept, and the port holds that byte if the write succeeds and is unchanged
\* if the write fails; when the read fails no write is issued and the port
\* is unchanged.
C30_ReadModifyWriteFrameAmended ==
    ret.returned =>
        IF call.readOk
        THEN /\ Len(ret.value.written) = 1
             /\ OnlyBitChanged(call.port, ret.value.written[1],
                               PinOf(call.fn), call.state)
             /\ ret.value.port = IF call.writeOk THEN ret.value.written[1]
                                 ELSE call.port
        ELSE ret.value.written = <<>> /\ ret.value.port = call.port

\* set_spi_lcd_power_state(true) on a port reading 0xA5 has written 0xAD
C30_Witness ==
    /\ ret.returned
    /\ call.fn = "set_spi_lcd_power_state"
    /\ call.port = 165 /\ call.state /\ call.readOk /\ call.writeOk
    /\ ret.value.written = <<173>>
    /\ ret.value.port = 173

\* C31 (backlight state tracking): in every poll that handles a KEY1 press
\* BL_STATE is flipped exactly once and, when the poll ends, equals the
\* level of the backlight pin P1.3 in output port 1, whether or not the I2C
\* read and write of the toggle succeed; a poll without a KEY1 press leaves
\* BL_STATE alone.
C31_BacklightTracking ==
    [][/\ (1 \in fired') =>
              /\ blState' = ~blState
              /\ blState' = BitOf(port1Out', 3)
       /\ (1 \notin fired') => blState' = blState]_vars

\* DisplayColor::next applied n times
RECURSIVE NextTimes(_, _)
NextTimes(n, c) == IF n = 0 THEN c ELSE NextTimes(n - 1, DisplayColor_next(c))

\* the poll has found KEY2 pressed and not pressed in KEY_STATES
Key2Edge == bpc = "scan" /\ bIdx = 2 /\ current[2] /\ ~keyStates[2]

\* C32 (display colour cycle): DisplayColor::next maps Red to Green, Green
\* to Blue, Blue to White, White to Black and Black to Red; it is a
\* permutation of the five colours, five applications return every colour
\* to itself and one to four applications never do; and CURRENT_COLOR
\* changes only in the KEY2 arm of a poll, which every KEY2 press edge
\* enters once and which advances it by one application of next.
C32_DisplayColourCycle ==
    /\ [](/\ DisplayColor_next("Red") = "Green"
          /\ DisplayColor_next("Green") = "Blue"
          /\ DisplayColor_next("Blue") = "White"
          /\ DisplayColor_next("White") = "Black"
          /\ DisplayColor_next("Black") = "Red"
          /\ {DisplayColor_next(c) : c \in DisplayColor} = DisplayColor
          /\ \A c \in DisplayColor :
                /\ NextTimes(5, c) = c
                /\ \A n \in 1..4 : NextTimes(n, c) # c)
    /\ [][Key2Edge => bpc' = "k2_lock"]_vars
    /\ [][(bpc' = "k2_lock" /\ bpc # "k2_lock") => Key2Edge]_vars
    /\ [][bpc = "k2_lock" => bpc' = "k2_next"]_vars
    /\ [][bpc = "k2_next"
             => (currentColor' = DisplayColor_next(currentColor)
                 /\ bpc' = "relock")]_vars
    /\ [][(bpc = "relock" /\ bIdx = 2) => (bpc' = "scan" /\ bIdx' = 3)]_vars
    /\ [][bpc # "k2_next" => currentColor' = currentColor]_vars

\* a poll has ended in which a KEY2 press edge moved CURRENT_COLOR from
\* White to Black, the fourth step from Red
C32_Witness ==
    /\ bpc = "idle"
    /\ 2 \in fired
    /\ currentColor = "Black"

\* C34 (key task lock discipline): in every poll, whatever keys it finds
\* pressed, no try_lock().unwrap() of the key task panics: where KEY_STATES,
\* BL_STATE, CURRENT_COLOR or BEEP_STATE is requested its guard is not
\* alive; the loop and the final write of current_states run with the
\* KEY_STATES guard alive; and no guard outlives the poll.
C34_KeyTaskLockDiscipline ==
    /\ bpc # "panicked"
    /\ bpc \in {"lock", "relock"} => "KEY_STATES" \notin held
    /\ bpc = "k1_lock" => "BL_STATE" \notin held
    /\ bpc = "k2_lock" => "CURRENT_COLOR" \notin held
    /\ bpc = "k3_lock" => "BEEP_STATE" \notin held
    /\ bpc = "scan" => "KEY_STATES" \in held
    /\ bpc = "idle" => held = {}

\* a poll has ended in which all four keys had a press edge
C34_Witness ==
    /\ bpc = "idle"
    /\ fired = {0, 1, 2, 3}
    /\ keyStates = [i \in Keys |-> TRUE]
    /\ held = {}

\* every write of the log has DC at the level of what it carries, and a
\* failed write is the last one and the operation's error
DcFollowsKind(r) ==
    \A i \in 1..Len(r.d.log) :
        LET e == r.d.log[i]
        IN  /\ e.kind = "command" => (e.dc = "Low" /\ Len(e.bytes) = 1)
            /\ e.kind = "data" => (e.dc = "High" /\ Len(e.bytes) >= 1)
            /\ ~e.ok => (i = Len(r.d.log) /\ r.err = "spi")
            /\ (i = call.d.fail) = ~e.ok

RECURSIVE BytesFrom(_, _)
BytesFrom(writes, i) ==
    IF i > Len(writes) THEN 0
    ELSE Len(writes[i].bytes) + BytesFrom(writes, i + 1)

\* the write after which the pixels follow: the first RAMWR command
PixelsStart(writes) ==
    CHOOSE i \in 1..Len(writes) :
        /\ writes[i].kind = "command"
        /\ writes[i].bytes = <<CMD_RAMWR>>
        /\ \A j \in 1..(i - 1) :
               writes[j].kind = "data" \/ writes[j].bytes # <<CMD_RAMWR>>

\* the pixel writes carry 2*w*h bytes, at most BufferLen each, every pixel
\* the colour's high byte and then its low byte
PixelsSent(writes, w, h, color) ==
    /\ \E i \in 1..Len(writes) :
           writes[i].kind = "command" /\ writes[i].bytes = <<CMD_RAMWR>>
    /\ LET s == PixelsStart(writes)
       IN  /\ BytesFrom(writes, s + 1) = 2 * w * h
           /\ \A i \in (s + 1)..Len(writes) :
                  /\ writes[i].kind = "data"
                  /\ Len(writes[i].bytes) <= BufferLen
                  /\ Len(writes[i].bytes) % 2 = 0
                  /\ \A k \in 1..Len(writes[i].bytes) :
                         writes[i].bytes[k] =
                             IF k % 2 = 1 THEN Hi8(color) ELSE Lo8(color)

\* the rectangle lies wholly inside the display
RectInside(d, x, y, w, h) ==
    w >= 1 /\ h >= 1 /\ x + w <= d.width /\ y + h <= d.height

\* the origin or the far corner (x + w - 1, y + h - 1) lies outside
RectOutside(d, x, y, w, h) ==
    \/ x >= d.width
    \/ y >= d.height
    \/ x + w - 1 \notin 0..(d.width - 1)
    \/ y + h - 1 \notin 0..(d.height - 1)

\* a fill of a rectangle inside the display that met no SPI error sends its
\* pixels as stated
InsideFillSendsPixels ==
    (call.fn = "fill_rectangle" /\ ret.returned) =>
        LET a == call.args
        IN  (RectInside(call.d, a[1], a[2], a[3], a[4]) /\ call.d.fail = 0) =>
                /\ ret.value.ok
                /\ PixelsSent(ret.value.d.log, a[3], a[4], a[5])

\* C35: for a rectangle with w >= 1, h >= 1 wholly inside the display,
\* fill_rectangle sends after the memory-write command exactly 2*w*h pixel
\* bytes, in SPI writes of at most 2048 bytes each, every pixel the colour's
\* high byte followed by its low byte; a rectangle whose origin or far
\* corner lies outside the display causes no SPI traffic and returns Ok.
C35_FillByteCount ==
    (call.fn = "fill_rectangle" /\ ret.returned) =>
        LET a == call.args
        IN  /\ (RectInside(call.d, a[1], a[2], a[3], a[4]) /\ call.d.fail = 0) =>
                   /\ ret.value.ok
                   /\ PixelsSent(ret.value.d.log, a[3], a[4], a[5])
            /\ RectOutside(call.d, a[1], a[2], a[3], a[4]) =>
                   /\ ret.value.ok
                   /\ ret.value.d.log = <<>>

====
